---- MODULE Spec2Model ----
(***************************************************************************)
(* Negotiation-to-Transaction lifecycle of the Sellio marketplace backend. *)
(*                                                                         *)
(* The store is modelled table by table: every table is a sequence of rows *)
(* and a row's id is its index.  Amounts are whole pesos; columns declared *)
(* varchar (bids.bid_amount) keep the store's string ordering.  Time is    *)
(* counted in hours.  Every modelled request carries its required fields   *)
(* (the 401/400 "is required" checks belong to request parsing).  Rows of  *)
(* users, product_images, messages and notifications are written or read   *)
(* for display only and are read by no guard modelled here.                *)
(***************************************************************************)
EXTENDS Integers, Sequences, FiniteSets, TLC

VARIABLES
    now,            \* wall clock (new Date()), in hours
    products,       \* productsTable: product id -> row
    bids,           \* bidsTable
    offers,         \* offersTable
    buys,           \* buysTable
    txns,           \* transactions
    conversations,  \* conversationsTable
    inflight,       \* requests suspended at an await
    res,            \* the last response sent (handler and HTTP status)
    reviews,        \* reviews
    sessions,       \* locationSharingSessionsTable
    locationUpdates,\* locationUpdatesTable
    logged          \* what the last operation wrote with console.error

vars == <<now, products, bids, offers, buys, txns, conversations, inflight, res,
          reviews, sessions, locationUpdates, logged>>
\* the tables and the log that the negotiation handlers leave alone
others == <<reviews, sessions, locationUpdates, logged>>
db == <<products, bids, offers, buys, txns, conversations>>

----------------------------------------------------------------------------
\* Bounds of the model
MaxTime == 3
MaxBids == 3
MaxOffers == 2
MaxBuys == 1
MaxTxns == 3
MaxSessions == 2
MaxReviews == 3
MaxUpdates == 2

\* A nullable column holding no value
NULL == 0

\* 60 * 60 * 1000 ms and 24 * 60 * 60 * 1000 ms, in hours
ONE_HOUR == 1
TWENTY_FOUR_HOURS == 24

Seller == "s"
Users == {"s", "b1", "b2"}
BidAmounts == {8, 9, 10, 11, 105, 110, 115, 120}

Reply(op, code) == res' = [op |-> op, code |-> code]

NoResponse == [op |-> "none", code |-> NULL]

Ids(table) == 1..Len(table)

----------------------------------------------------------------------------
\* varchar ordering of amounts

RECURSIVE Digits(_)
Digits(n) == IF n < 10 THEN <<n>> ELSE Append(Digits(n \div 10), n % 10)

RECURSIVE StrLess(_, _)
StrLess(a, b) ==
    IF a = <<>> THEN b # <<>>
    ELSE IF b = <<>> THEN FALSE
    ELSE IF Head(a) # Head(b) THEN Head(a) < Head(b)
    ELSE StrLess(Tail(a), Tail(b))

\* a.bidAmount sorts before b.bidAmount in the store
AmountBefore(a, b) == StrLess(Digits(a), Digits(b))

BidsOf(productId) == {i \in Ids(bids) : bids[i].productId = productId}

\* select().from(bidsTable).where(productId).orderBy(desc(bidAmount)).limit(1):
\* the rows the store may return first (equal strings tie), {NULL} when none
HighestBid(productId) ==
    IF BidsOf(productId) = {} THEN {NULL}
    ELSE {i \in BidsOf(productId) :
            \A j \in BidsOf(productId) :
                ~AmountBefore(bids[i].bidAmount, bids[j].bidAmount)}

----------------------------------------------------------------------------
\* placeBid

MinimumIncrement(product) ==
    IF product.minimumBid # NULL THEN product.minimumBid ELSE 0

\* JavaScript x % y !== 0 for x >= 0: NaN when y is 0, and NaN !== 0
RemainderNonZero(x, y) == IF y = 0 THEN TRUE ELSE x % y # 0

BiddingEnded(product) ==
    product.biddingEndsAt # NULL /\ product.biddingEndsAt < now

ProductRejectsBid(product, userId, bidValue) ==
    \/ product.saleType # "bidding"
    \/ BiddingEnded(product)
    \/ product.sellerId = userId
    \/ bidValue < product.price

HighestBidRejects(product, highestBid, bidValue) ==
    LET currentHighestBid == highestBid.bidAmount
        difference == bidValue - currentHighestBid
    IN  \/ bidValue <= currentHighestBid
        \/ difference < MinimumIncrement(product)
        \/ RemainderNonZero(difference, MinimumIncrement(product))

\* FirstBidRejects without the test that the step from the starting price
\* is a multiple of the increment
FirstBidRejects_NoMultipleCheck(product, bidValue) ==
    bidValue < product.price + MinimumIncrement(product)

FirstBidRejects(product, bidValue) ==
    LET minimumFirstBid == product.price + MinimumIncrement(product)
        difference == bidValue - product.price
    IN  \/ bidValue < minimumFirstBid
        \/ /\ MinimumIncrement(product) > 0
           /\ difference % MinimumIncrement(product) # 0

NewBid(productId, userId, bidAmount) ==
    [productId |-> productId, bidderId |-> userId,
     bidAmount |-> bidAmount, status |-> "active"]

MarkOutbid(table, bidId) == [table EXCEPT ![bidId].status = "outbid"]

PlaceBid(userId, productId, bidAmount) ==
    LET product == products[productId] IN
    /\ inflight = <<>>
    /\ UNCHANGED <<now, products, offers, buys, txns, conversations, inflight>>
    /\ IF ProductRejectsBid(product, userId, bidAmount)
       THEN Reply("placeBid", 400) /\ UNCHANGED bids
       ELSE \E highestBid \in HighestBid(productId) :
              IF highestBid # NULL
              THEN IF HighestBidRejects(product, bids[highestBid], bidAmount)
                   THEN Reply("placeBid", 400) /\ UNCHANGED bids
                   ELSE /\ Len(bids) < MaxBids
                        /\ bids' = Append(MarkOutbid(bids, highestBid),
                                          NewBid(productId, userId, bidAmount))
                        /\ Reply("placeBid", 201)
              ELSE IF FirstBidRejects(product, bidAmount)
                   THEN Reply("placeBid", 400) /\ UNCHANGED bids
                   ELSE /\ Len(bids) < MaxBids
                        /\ bids' = Append(bids, NewBid(productId, userId, bidAmount))
                        /\ Reply("placeBid", 201)

----------------------------------------------------------------------------
\* placeBid, one step per store operation that another request can interleave
\* with: the handler holds no lock and opens no store transaction

MaxRequests == 2

Request(pc, userId, productId, bidAmount, highestBid) ==
    [pc |-> pc, userId |-> userId, productId |-> productId,
     bidAmount |-> bidAmount, highestBid |-> highestBid]

Idle == Request("idle", NULL, NULL, NULL, NULL)

\* select the product and validate against it
BeginPlaceBid(r, userId, productId, bidAmount) ==
    /\ r \in DOMAIN inflight
    /\ inflight[r].pc = "idle"
    /\ IF ProductRejectsBid(products[productId], userId, bidAmount)
       THEN Reply("placeBid", 400) /\ UNCHANGED inflight
       ELSE /\ inflight' = [inflight EXCEPT ![r] =
                   Request("selectHighestBid", userId, productId, bidAmount, NULL)]
            /\ UNCHANGED res
    /\ UNCHANGED <<now, products, bids, offers, buys, txns, conversations>>

\* select the current highest bid and validate against it
SelectHighestBid(r) ==
    /\ r \in DOMAIN inflight
    /\ inflight[r].pc = "selectHighestBid"
    /\ LET req == inflight[r]
           product == products[req.productId]
       IN \E highestBid \in HighestBid(req.productId) :
            IF highestBid # NULL
            THEN IF HighestBidRejects(product, bids[highestBid], req.bidAmount)
                 THEN Reply("placeBid", 400) /\ inflight' = [inflight EXCEPT ![r] = Idle]
                 ELSE /\ inflight' = [inflight EXCEPT ![r].pc = "updateOutbid",
                                                      ![r].highestBid = highestBid]
                      /\ UNCHANGED res
            ELSE IF FirstBidRejects(product, req.bidAmount)
                 THEN Reply("placeBid", 400) /\ inflight' = [inflight EXCEPT ![r] = Idle]
                 ELSE /\ inflight' = [inflight EXCEPT ![r].pc = "insertBid"]
                      /\ UNCHANGED res
    /\ UNCHANGED <<now, products, bids, offers, buys, txns, conversations>>

\* update(bidsTable).set({status: "outbid"}).where(id = highestBid.id)
UpdateOutbid(r) ==
    /\ r \in DOMAIN inflight
    /\ inflight[r].pc = "updateOutbid"
    /\ bids' = MarkOutbid(bids, inflight[r].highestBid)
    /\ inflight' = [inflight EXCEPT ![r].pc = "insertBid"]
    /\ UNCHANGED <<now, products, offers, buys, txns, conversations, res>>

\* insert(bidsTable) and respond
InsertBid(r) ==
    /\ r \in DOMAIN inflight
    /\ inflight[r].pc = "insertBid"
    /\ Len(bids) < MaxBids
    /\ bids' = Append(bids, NewBid(inflight[r].productId, inflight[r].userId,
                                   inflight[r].bidAmount))
    /\ inflight' = [inflight EXCEPT ![r] = Idle]
    /\ Reply("placeBid", 201)
    /\ UNCHANGED <<now, products, offers, buys, txns, conversations>>

----------------------------------------------------------------------------
\* rows created by the handlers

NewTransaction(offerId, buyId, bidId, productId, buyerId, sellerId, agreedPrice) ==
    [offerId |-> offerId, buyId |-> buyId, bidId |-> bidId,
     productId |-> productId, buyerId |-> buyerId, sellerId |-> sellerId,
     agreedPrice |-> agreedPrice, status |-> "active",
     meetupStatus |-> "not_scheduled", scheduledMeetupAt |-> NULL,
     meetupProposedBy |-> NULL, buyerConfirmedCompletion |-> FALSE,
     sellerConfirmedCompletion |-> FALSE,
     expiresAt |-> now + TWENTY_FOUR_HOURS, cancelledBy |-> NULL]

NewConversation(participant1Id, participant2Id, productId, offerId, buyId, bidId, transactionId) ==
    [participant1Id |-> participant1Id, participant2Id |-> participant2Id,
     productId |-> productId, offerId |-> offerId, buyId |-> buyId,
     bidId |-> bidId, transactionId |-> transactionId]

Min(S) == CHOOSE x \in S : \A y \in S : x <= y

\* select().from(conversationsTable).where(...).limit(1), found the ids of
\* the rows the where clause matches: NULL when none
FirstConversation(found) == IF found = {} THEN NULL ELSE Min(found)

----------------------------------------------------------------------------
\* offers

NewOffer(productId, buyerId, sellerId, offerAmount) ==
    [productId |-> productId, buyerId |-> buyerId, sellerId |-> sellerId,
     offerAmount |-> offerAmount, status |-> "pending"]

CreateOfferError(product, userId) ==
    IF product.sellerId = userId THEN 400
    ELSE IF ~product.allowOffers THEN 400
    ELSE IF product.status # "active" THEN 400
    ELSE NULL

CreateOffer(userId, productId, offerAmount) ==
    LET product == products[productId] IN
    /\ inflight = <<>>
    /\ IF CreateOfferError(product, userId) # NULL
       THEN Reply("createOffer", CreateOfferError(product, userId)) /\ UNCHANGED offers
       ELSE /\ Len(offers) < MaxOffers
            /\ offers' = Append(offers, NewOffer(productId, userId, product.sellerId,
                                                 offerAmount))
            /\ Reply("createOffer", 201)
    /\ UNCHANGED <<now, products, bids, buys, txns, conversations, inflight>>

\* RespondOfferError without the test that the offer is pending
RespondOfferError_AnyStatus(offer, userId) ==
    IF offer.sellerId # userId THEN 403 ELSE NULL

\* the seller-only, pending-only guard shared by acceptOffer and rejectOffer
RespondOfferError(offer, userId) ==
    IF offer.sellerId # userId THEN 403
    ELSE IF offer.status # "pending" THEN 400
    ELSE NULL

\* AttachTransaction that writes nothing
AttachTransaction_Never(table, found, transactionId) == table

\* back-fill transactionId on the first conversation among found, if any
AttachTransaction(table, found, transactionId) ==
    LET conversation == FirstConversation(found)
    IN  IF conversation = NULL THEN table
        ELSE [table EXCEPT ![conversation].transactionId = transactionId]

AcceptOffer(userId, id) ==
    LET offer == offers[id]
        OfOffer == {c \in Ids(conversations) : conversations[c].offerId = id}
    IN
    /\ inflight = <<>>
    /\ IF RespondOfferError(offer, userId) # NULL
       THEN /\ Reply("acceptOffer", RespondOfferError(offer, userId))
            /\ UNCHANGED <<offers, txns, conversations>>
       ELSE /\ Len(txns) < MaxTxns
            /\ offers' = [offers EXCEPT ![id].status = "accepted"]
            /\ txns' = Append(txns, NewTransaction(id, NULL, NULL, offer.productId,
                                  offer.buyerId, offer.sellerId, offer.offerAmount))
            /\ conversations' = AttachTransaction(conversations, OfOffer, Len(txns) + 1)
            /\ Reply("acceptOffer", 200)
    /\ UNCHANGED <<now, products, bids, buys, inflight>>

\* acceptOffer await by await.  First the checks and the update of the offer:
\* the handler is then suspended with the transaction still to insert
UpdateOfferAccepted(userId, id) ==
    LET offer == offers[id] IN
    /\ inflight = <<>>
    /\ IF RespondOfferError(offer, userId) # NULL
       THEN /\ Reply("acceptOffer", RespondOfferError(offer, userId))
            /\ UNCHANGED <<offers, inflight>>
       ELSE /\ Len(txns) < MaxTxns
            /\ offers' = [offers EXCEPT ![id].status = "accepted"]
            /\ inflight' = <<[pc |-> "insertTransaction", userId |-> userId,
                              offerId |-> id]>>
            /\ UNCHANGED res
    /\ UNCHANGED <<now, products, bids, buys, txns, conversations>>

\* then the insert of the transaction, the back-fill of the conversation and
\* the response
InsertOfferTransaction ==
    /\ inflight # <<>>
    /\ inflight[1].pc = "insertTransaction"
    /\ LET id == inflight[1].offerId
           offer == offers[id]
           OfOffer == {c \in Ids(conversations) : conversations[c].offerId = id}
       IN  /\ txns' = Append(txns, NewTransaction(id, NULL, NULL, offer.productId,
                                 offer.buyerId, offer.sellerId, offer.offerAmount))
           /\ conversations' = AttachTransaction(conversations, OfOffer, Len(txns) + 1)
    /\ inflight' = <<>>
    /\ Reply("acceptOffer", 200)
    /\ UNCHANGED <<now, products, bids, offers, buys>>

RejectOffer(userId, id) ==
    LET offer == offers[id] IN
    /\ inflight = <<>>
    /\ IF RespondOfferError(offer, userId) # NULL
       THEN Reply("rejectOffer", RespondOfferError(offer, userId)) /\ UNCHANGED offers
       ELSE /\ offers' = [offers EXCEPT ![id].status = "rejected"]
            /\ Reply("rejectOffer", 200)
    /\ UNCHANGED <<now, products, bids, buys, txns, conversations, inflight>>

\* UpdateOfferError that lets only a pending offer through
UpdateOfferError_PendingOnly(offer, userId) ==
    IF offer.buyerId # userId THEN 403
    ELSE IF offer.status # "pending" THEN 400
    ELSE NULL

UpdateOfferError(offer, userId) ==
    IF offer.buyerId # userId THEN 403
    ELSE IF offer.status # "pending" /\ offer.status # "rejected" THEN 400
    ELSE NULL

UpdateOfferAmount(userId, id, newAmount) ==
    LET offer == offers[id] IN
    /\ inflight = <<>>
    /\ IF newAmount = NULL
       THEN Reply("updateOfferAmount", 400) /\ UNCHANGED offers
       ELSE IF UpdateOfferError(offer, userId) # NULL
       THEN Reply("updateOfferAmount", UpdateOfferError(offer, userId))
            /\ UNCHANGED offers
       ELSE /\ offers' = [offers EXCEPT ![id].offerAmount = newAmount,
                                        ![id].status = "pending"]
            /\ Reply("updateOfferAmount", 200)
    /\ UNCHANGED <<now, products, bids, buys, txns, conversations, inflight>>

\* the conversation of (productId, participant1Id, participant2Id), NULL when none
ConversationBetween(participant1Id, participant2Id, productId) ==
    FirstConversation({c \in Ids(conversations) :
                         /\ conversations[c].productId = productId
                         /\ conversations[c].participant1Id = participant1Id
                         /\ conversations[c].participant2Id = participant2Id})

\* the offer of the existing conversation in either direction, NULL when the
\* conversation is missing or carries no offer
ExistingOffer(userId, participant2Id, productId) ==
    LET forward == ConversationBetween(userId, participant2Id, productId)
        reverse == ConversationBetween(participant2Id, userId, productId)
    IN  IF forward # NULL /\ conversations[forward].offerId # NULL
        THEN conversations[forward].offerId
        ELSE IF reverse # NULL /\ conversations[reverse].offerId # NULL
        THEN conversations[reverse].offerId
        ELSE NULL

\* neither the product nor the offer's status is read
CreateNegotiableConversation(userId, participant2Id, productId, offerPrice) ==
    LET offerId == ExistingOffer(userId, participant2Id, productId) IN
    /\ inflight = <<>>
    /\ IF offerId # NULL
       THEN /\ offers' = [offers EXCEPT ![offerId].offerAmount = offerPrice]
            /\ UNCHANGED conversations
       ELSE /\ Len(offers) < MaxOffers
            /\ offers' = Append(offers, NewOffer(productId, userId, participant2Id,
                                                 offerPrice))
            /\ conversations' = Append(conversations,
                                       NewConversation(userId, participant2Id, productId,
                                                       Len(offers) + 1, NULL, NULL, NULL))
    /\ Reply("createNegotiableConversation", 201)
    /\ UNCHANGED <<now, products, bids, buys, txns, inflight>>

----------------------------------------------------------------------------
\* buys

NewBuy(productId, buyerId, sellerId, purchasePrice) ==
    [productId |-> productId, buyerId |-> buyerId, sellerId |-> sellerId,
     purchasePrice |-> purchasePrice, status |-> "pending"]

\* the conversation of (productId, userId, participant2Id), else the reverse
ExistingConversation(userId, participant2Id, productId) ==
    LET Between(p1, p2) == {c \in Ids(conversations) :
                               /\ conversations[c].productId = productId
                               /\ conversations[c].participant1Id = p1
                               /\ conversations[c].participant2Id = p2}
        Forward == Between(userId, participant2Id)
        Reverse == Between(participant2Id, userId)
    IN  IF FirstConversation(Forward) # NULL
        THEN FirstConversation(Forward)
        ELSE FirstConversation(Reverse)

CreateBuyConversation(userId, participant2Id, productId) ==
    LET product == products[productId]
        conversation == ExistingConversation(userId, participant2Id, productId)
        existingBuy == IF conversation = NULL THEN NULL
                       ELSE conversations[conversation].buyId
        buy == IF existingBuy = NULL THEN Len(buys) + 1 ELSE existingBuy
    IN
    /\ inflight = <<>>
    /\ IF product.status # "active"
       THEN Reply("createBuyConversation", 400) /\ UNCHANGED <<buys, conversations>>
       ELSE /\ IF existingBuy = NULL
               THEN /\ Len(buys) < MaxBuys
                    /\ buys' = Append(buys, NewBuy(productId, userId, participant2Id,
                                                   product.price))
               ELSE UNCHANGED buys
            /\ conversations' =
                 IF conversation = NULL
                 THEN Append(conversations,
                             NewConversation(userId, participant2Id, productId,
                                             NULL, buy, NULL, NULL))
                 ELSE IF conversations[conversation].buyId = NULL
                 THEN [conversations EXCEPT ![conversation].buyId = buy]
                 ELSE conversations
            /\ Reply("createBuyConversation", 201)
    /\ UNCHANGED <<now, products, bids, offers, txns, inflight>>

\* ConfirmBuyError without the test of the product's status
ConfirmBuyError_NoProductCheck(buy, product, userId) ==
    IF buy.sellerId # userId THEN 403
    ELSE IF buy.status # "pending" THEN 400
    ELSE NULL

ConfirmBuyError(buy, product, userId) ==
    IF buy.sellerId # userId THEN 403
    ELSE IF buy.status # "pending" THEN 400
    ELSE IF product.status # "active" THEN 400
    ELSE NULL

ConfirmBuy(userId, id) ==
    LET buy == buys[id]
        product == products[buy.productId]
        OfBuy == {c \in Ids(conversations) : conversations[c].buyId = id}
    IN
    /\ inflight = <<>>
    /\ IF ConfirmBuyError(buy, product, userId) # NULL
       THEN /\ Reply("confirmBuy", ConfirmBuyError(buy, product, userId))
            /\ UNCHANGED <<buys, txns, conversations>>
       ELSE /\ Len(txns) < MaxTxns
            /\ buys' = [buys EXCEPT ![id].status = "confirmed_pending_meetup"]
            /\ txns' = Append(txns, NewTransaction(NULL, id, NULL, buy.productId,
                                  buy.buyerId, buy.sellerId, buy.purchasePrice))
            /\ conversations' = AttachTransaction(conversations, OfBuy, Len(txns) + 1)
            /\ Reply("confirmBuy", 200)
    /\ UNCHANGED <<now, products, bids, offers, inflight>>

----------------------------------------------------------------------------
\* the meetup sub-state-machine and the end of a transaction

IsParticipant(transaction, userId) ==
    transaction.buyerId = userId \/ transaction.sellerId = userId

ProposeMeetupError(transaction, userId, scheduledMeetupAt) ==
    IF ~IsParticipant(transaction, userId) THEN 403
    ELSE IF transaction.status # "active" THEN 400
    ELSE IF scheduledMeetupAt <= now THEN 400
    ELSE NULL

ProposeMeetup(userId, transactionId, scheduledMeetupAt) ==
    LET transaction == txns[transactionId] IN
    /\ inflight = <<>>
    /\ IF ProposeMeetupError(transaction, userId, scheduledMeetupAt) # NULL
       THEN /\ Reply("proposeMeetup",
                     ProposeMeetupError(transaction, userId, scheduledMeetupAt))
            /\ UNCHANGED txns
       ELSE /\ txns' = [txns EXCEPT ![transactionId].scheduledMeetupAt = scheduledMeetupAt,
                                    ![transactionId].meetupStatus = "scheduled",
                                    ![transactionId].meetupProposedBy = userId]
            /\ Reply("proposeMeetup", 200)
    /\ UNCHANGED <<now, products, bids, offers, buys, conversations, inflight>>

AcceptMeetupError(transaction, userId) ==
    IF ~IsParticipant(transaction, userId) THEN 403
    ELSE IF transaction.meetupStatus # "scheduled" THEN 400
    ELSE NULL

AcceptMeetup(userId, transactionId) ==
    LET transaction == txns[transactionId] IN
    /\ inflight = <<>>
    /\ IF AcceptMeetupError(transaction, userId) # NULL
       THEN Reply("acceptMeetup", AcceptMeetupError(transaction, userId))
            /\ UNCHANGED txns
       ELSE /\ txns' = [txns EXCEPT ![transactionId].meetupStatus = "confirmed"]
            /\ Reply("acceptMeetup", 200)
    /\ UNCHANGED <<now, products, bids, offers, buys, conversations, inflight>>

\* SetStatus that writes nothing
SetStatus_Never(table, id, status) == table

\* status written to the origin rows of a transaction: each of offerId, buyId
\* and bidId is tested on its own
SetStatus(table, id, status) ==
    IF id = NULL THEN table ELSE [table EXCEPT ![id].status = status]

\* MarkAsSoldError without the test of meetupStatus
MarkAsSoldError_NoMeetupCheck(transaction, userId) ==
    IF transaction.sellerId # userId THEN 403
    ELSE IF transaction.status # "active" THEN 400
    ELSE NULL

MarkAsSoldError(transaction, userId) ==
    IF transaction.sellerId # userId THEN 403
    ELSE IF transaction.meetupStatus # "confirmed" THEN 400
    ELSE IF transaction.status # "active" THEN 400
    ELSE NULL

MarkAsSold(userId, transactionId) ==
    LET transaction == txns[transactionId] IN
    /\ inflight = <<>>
    /\ IF MarkAsSoldError(transaction, userId) # NULL
       THEN /\ Reply("markAsSold", MarkAsSoldError(transaction, userId))
            /\ UNCHANGED <<txns, products, offers, buys, bids>>
       ELSE /\ txns' = [txns EXCEPT ![transactionId].status = "completed",
                                    ![transactionId].sellerConfirmedCompletion = TRUE]
            /\ products' = [products EXCEPT
                              ![transaction.productId].status = "sold",
                              ![transaction.productId].soldTo = transaction.buyerId]
            /\ offers' = SetStatus(offers, transaction.offerId, "completed")
            /\ buys' = SetStatus(buys, transaction.buyId, "completed")
            /\ bids' = SetStatus(bids, transaction.bidId, "completed")
            /\ Reply("markAsSold", 200)
    /\ UNCHANGED <<now, conversations, inflight>>

\* WithinOneHourOfMeetup with > for >=
WithinOneHourOfMeetup_Strict(transaction) ==
    /\ transaction.scheduledMeetupAt # NULL
    /\ now > transaction.scheduledMeetupAt - ONE_HOUR

\* now >= scheduledMeetupAt - 60 * 60 * 1000, when a meetup time is stored
WithinOneHourOfMeetup(transaction) ==
    /\ transaction.scheduledMeetupAt # NULL
    /\ now >= transaction.scheduledMeetupAt - ONE_HOUR

\* CancelTransactionError without the test that the transaction is active
CancelTransactionError_AnyStatus(transaction, userId) ==
    IF ~IsParticipant(transaction, userId) THEN 403
    ELSE IF WithinOneHourOfMeetup(transaction) THEN 400
    ELSE NULL

CancelTransactionError(transaction, userId) ==
    IF ~IsParticipant(transaction, userId) THEN 403
    ELSE IF transaction.status # "active" THEN 400
    ELSE IF WithinOneHourOfMeetup(transaction) THEN 400
    ELSE NULL

CancelTransaction(userId, transactionId) ==
    LET transaction == txns[transactionId]
        newStatus == IF transaction.buyerId = userId
                     THEN "cancelled_by_buyer" ELSE "cancelled_by_seller"
    IN
    /\ inflight = <<>>
    /\ IF CancelTransactionError(transaction, userId) # NULL
       THEN /\ Reply("cancelTransaction", CancelTransactionError(transaction, userId))
            /\ UNCHANGED <<txns, products, offers, buys, bids>>
       ELSE /\ txns' = [txns EXCEPT ![transactionId].status = newStatus,
                                    ![transactionId].cancelledBy = userId]
            /\ offers' = SetStatus(offers, transaction.offerId, "cancelled")
            /\ buys' = SetStatus(buys, transaction.buyId, newStatus)
            /\ bids' = SetStatus(bids, transaction.bidId, "cancelled")
            /\ products' = [products EXCEPT ![transaction.productId].status = "active"]
            /\ Reply("cancelTransaction", 200)
    /\ UNCHANGED <<now, conversations, inflight>>

----------------------------------------------------------------------------
\* expireBidsJob: the auction-close sweep

\* ExpiredBiddingProducts without the test of the product's status
ExpiredBiddingProducts_AnyStatus ==
    {p \in DOMAIN products :
        /\ products[p].saleType = "bidding"
        /\ products[p].biddingEndsAt # NULL
        /\ products[p].biddingEndsAt < now}

ExpiredBiddingProducts ==
    {p \in DOMAIN products :
        /\ products[p].saleType = "bidding"
        /\ products[p].status = "active"
        /\ products[p].biddingEndsAt # NULL
        /\ products[p].biddingEndsAt < now}

\* one iteration of the loop over expiredBiddingProducts
CloseAuction(productId, highestBid, st) ==
    IF highestBid = NULL
    THEN [st EXCEPT !.products[productId].status = "expired"]
    ELSE
      LET product == st.products[productId]
          bidderId == st.bids[highestBid].bidderId
          won == [st.bids EXCEPT ![highestBid].status = "won"]
          lost == [i \in DOMAIN won |->
                     IF won[i].productId = productId /\ won[i].status = "active"
                     THEN [won[i] EXCEPT !.status = "lost"] ELSE won[i]]
          transaction == NewTransaction(NULL, NULL, highestBid, productId, bidderId,
                                        product.sellerId, st.bids[highestBid].bidAmount)
          transactionId == Len(st.txns) + 1
          existing == {c \in Ids(st.conversations) :
                         /\ st.conversations[c].productId = productId
                         /\ st.conversations[c].participant1Id = bidderId
                         /\ st.conversations[c].participant2Id = product.sellerId}
          conversation == FirstConversation(existing)
      IN  [products |-> [st.products EXCEPT ![productId].status = "in_transaction"],
           bids |-> lost,
           txns |-> Append(st.txns, transaction),
           conversations |->
             IF conversation = NULL
             THEN Append(st.conversations,
                         NewConversation(bidderId, product.sellerId, productId,
                                         NULL, NULL, highestBid, transactionId))
             ELSE [st.conversations EXCEPT ![conversation].bidId = highestBid,
                                           ![conversation].transactionId = transactionId]]

RECURSIVE CloseAuctions(_, _, _)
CloseAuctions(order, highest, st) ==
    IF order = <<>> THEN st
    ELSE CloseAuctions(Tail(order), highest,
                       CloseAuction(Head(order), highest[Head(order)], st))

\* the orders in which the store may return the rows of S
Orderings(S) ==
    {o \in [1..Cardinality(S) -> S] : \A i, j \in DOMAIN o : o[i] = o[j] => i = j}

\* a run that finds no expired bidding product returns without a write
ExpireBidsJob ==
    /\ inflight = <<>>
    /\ \E order \in Orderings(ExpiredBiddingProducts),
          highest \in [ExpiredBiddingProducts -> Ids(bids) \cup {NULL}] :
         /\ \A p \in ExpiredBiddingProducts : highest[p] \in HighestBid(p)
         /\ LET st == CloseAuctions(order, highest,
                        [products |-> products, bids |-> bids, txns |-> txns,
                         conversations |-> conversations])
            IN  /\ Len(st.txns) <= MaxTxns
                /\ products' = st.products
                /\ bids' = st.bids
                /\ txns' = st.txns
                /\ conversations' = st.conversations
    /\ Reply("expireBidsJob", 0)
    /\ UNCHANGED <<now, offers, buys, inflight>>

----------------------------------------------------------------------------
\* expireTransactionsJob: the transaction-expiry sweep

\* active transactions with scheduledMeetupAt < now - 24 h; a null
\* scheduledMeetupAt satisfies no comparison
\* ExpiredTransactions with <= for <: exactly 24 hours counts as past
ExpiredTransactions_AtCutoff ==
    {t \in Ids(txns) :
        /\ txns[t].status = "active"
        /\ txns[t].scheduledMeetupAt # NULL
        /\ txns[t].scheduledMeetupAt <= now - TWENTY_FOUR_HOURS}

ExpiredTransactions ==
    {t \in Ids(txns) :
        /\ txns[t].status = "active"
        /\ txns[t].scheduledMeetupAt # NULL
        /\ txns[t].scheduledMeetupAt < now - TWENTY_FOUR_HOURS}

\* rows of table named by pointer(transaction) of some expired transaction
\* get status; every iteration of the loop writes the same constant values
ExpireRows(table, Pointed, status) ==
    [i \in DOMAIN table |->
        IF i \in Pointed THEN [table[i] EXCEPT !.status = status] ELSE table[i]]

ExpireTransactionsJob ==
    /\ inflight = <<>>
    /\ txns' = ExpireRows(txns, ExpiredTransactions, "expired")
    /\ offers' = ExpireRows(offers, {txns[t].offerId : t \in ExpiredTransactions}, "expired")
    /\ buys' = ExpireRows(buys, {txns[t].buyId : t \in ExpiredTransactions}, "expired")
    /\ bids' = ExpireRows(bids, {txns[t].bidId : t \in ExpiredTransactions}, "expired")
    /\ products' = ExpireRows(products, {txns[t].productId : t \in ExpiredTransactions},
                              "active")
    /\ Reply("expireTransactionsJob", 0)
    /\ UNCHANGED <<now, conversations, inflight>>

----------------------------------------------------------------------------
\* the clock

Tick ==
    /\ now < MaxTime
    /\ now' = now + 1
    /\ UNCHANGED <<products, bids, offers, buys, txns, conversations, inflight, res>>

\* a day goes by
Wait ==
    /\ now <= MaxTime
    /\ now' = now + TWENTY_FOUR_HOURS
    /\ UNCHANGED <<products, bids, offers, buys, txns, conversations, inflight, res>>

----------------------------------------------------------------------------
\* location sharing and expireLocationSharingJob

NewSession(conversationId, isParticipant1) ==
    [conversationId |-> conversationId,
     participant1Sharing |-> isParticipant1,
     participant2Sharing |-> ~isParticipant1,
     participant1StartedAt |-> IF isParticipant1 THEN now ELSE NULL,
     participant2StartedAt |-> IF isParticipant1 THEN NULL ELSE now,
     participant1StoppedAt |-> NULL, participant2StoppedAt |-> NULL,
     status |-> "active"]

\* the active sessions of a conversation; the handlers read one with limit(1)
ActiveSessions(conversationId) ==
    {i \in Ids(sessions) : /\ sessions[i].conversationId = conversationId
                           /\ sessions[i].status = "active"}

StartLocationSharing(userId, conversationId) ==
    LET conversation == conversations[conversationId]
        isParticipant1 == conversation.participant1Id = userId
    IN
    /\ inflight = <<>>
    /\ IF conversation.participant1Id # userId /\ conversation.participant2Id # userId
       THEN Reply("startLocationSharing", 403) /\ UNCHANGED sessions
       ELSE IF ActiveSessions(conversationId) = {}
       THEN /\ Len(sessions) < MaxSessions
            /\ sessions' = Append(sessions, NewSession(conversationId, isParticipant1))
            /\ Reply("startLocationSharing", 200)
       ELSE /\ \E existingSession \in ActiveSessions(conversationId) :
                 sessions' =
                   IF isParticipant1
                   THEN [sessions EXCEPT ![existingSession].participant1Sharing = TRUE,
                                         ![existingSession].participant1StartedAt = now]
                   ELSE [sessions EXCEPT ![existingSession].participant2Sharing = TRUE,
                                         ![existingSession].participant2StartedAt = now]
            /\ Reply("startLocationSharing", 200)
    /\ UNCHANGED <<now, db, inflight, reviews, locationUpdates, logged>>

\* stopLocationSharing reads the conversation but never tests that the caller
\* takes part in it: every caller that is not participant 1 stops participant 2
StopLocationSharing(userId, conversationId) ==
    LET conversation == conversations[conversationId]
        isParticipant1 == conversation.participant1Id = userId
    IN
    /\ inflight = <<>>
    /\ IF ActiveSessions(conversationId) = {}
       THEN Reply("stopLocationSharing", 404) /\ UNCHANGED sessions
       ELSE /\ \E session \in ActiveSessions(conversationId) :
                 LET updatedSession ==
                       IF isParticipant1
                       THEN [sessions[session] EXCEPT !.participant1Sharing = FALSE,
                                                      !.participant1StoppedAt = now]
                       ELSE [sessions[session] EXCEPT !.participant2Sharing = FALSE,
                                                      !.participant2StoppedAt = now]
                 IN sessions' =
                      [sessions EXCEPT ![session] =
                         IF ~updatedSession.participant1Sharing
                            /\ ~updatedSession.participant2Sharing
                         THEN [updatedSession EXCEPT !.status = "ended"]
                         ELSE updatedSession]
            /\ Reply("stopLocationSharing", 200)
    /\ UNCHANGED <<now, db, inflight, reviews, locationUpdates, logged>>

\* participantNSharing && participantNStartedAt && startedAt < oneHourAgo
Participant1Expired(session) ==
    /\ session.participant1Sharing
    /\ session.participant1StartedAt # NULL
    /\ session.participant1StartedAt < now - ONE_HOUR

Participant2Expired(session) ==
    /\ session.participant2Sharing
    /\ session.participant2StartedAt # NULL
    /\ session.participant2StartedAt < now - ONE_HOUR

\* active sessions where either participant started sharing over an hour ago
ExpiredSessions ==
    {i \in Ids(sessions) :
        /\ sessions[i].status = "active"
        /\ Participant1Expired(sessions[i]) \/ Participant2Expired(sessions[i])}

\* BothStopped that looks at the expired participants only
BothStopped_Expired(session) ==
    Participant1Expired(session) \/ Participant2Expired(session)

\* (!participant1Sharing || participant1Expired) &&
\* (!participant2Sharing || participant2Expired)
BothStopped(session) ==
    /\ ~session.participant1Sharing \/ Participant1Expired(session)
    /\ ~session.participant2Sharing \/ Participant2Expired(session)

\* updateData of one iteration of the loop over expiredSessions
ExpireSession(session) ==
    [session EXCEPT
       !.participant1Sharing = IF Participant1Expired(session) THEN FALSE ELSE @,
       !.participant1StoppedAt = IF Participant1Expired(session) THEN now ELSE @,
       !.participant2Sharing = IF Participant2Expired(session) THEN FALSE ELSE @,
       !.participant2StoppedAt = IF Participant2Expired(session) THEN now ELSE @,
       !.status = IF BothStopped(session) THEN "ended" ELSE @]

ExpireLocationSharingJob ==
    /\ inflight = <<>>
    /\ sessions' = [i \in DOMAIN sessions |->
                      IF i \in ExpiredSessions THEN ExpireSession(sessions[i])
                      ELSE sessions[i]]
    /\ Reply("expireLocationSharingJob", 0)
    /\ UNCHANGED <<now, db, inflight, reviews, locationUpdates, logged>>

----------------------------------------------------------------------------
\* the sweeps when the store fails in the middle of a row

\* Processed for a loop inside one try block: the first failing row ends it
Processed_Aborting(order, failed) ==
    LET first == {i \in DOMAIN order : order[i] \in failed}
    IN IF first = {} THEN order ELSE SubSeq(order, 1, Min(first))

\* for (const row of rows) { try { ... } catch (error) { console.error(...) } }:
\* the rows the loop goes through when the rows in failed throw
Processed(order, failed) == order

Range(seq) == {seq[i] : i \in DOMAIN seq}

\* writes of one expired auction with bids: winning bid, losing bids,
\* transaction, product, conversation; without bids the product alone
AuctionWrites == 5

\* writes of one expired transaction: transaction, offer, buy, bid, product
TransactionWrites == 5

\* the iteration of CloseAuction cut short after its first writes
CloseAuctionPartly(productId, highestBid, st, writes) ==
    LET full == CloseAuction(productId, highestBid, st) IN
    IF highestBid = NULL
    THEN IF writes >= 1 THEN full ELSE st
    ELSE [products |-> IF writes >= 4 THEN full.products ELSE st.products,
          bids |-> IF writes >= 2 THEN full.bids
                   ELSE IF writes >= 1
                   THEN [st.bids EXCEPT ![highestBid].status = "won"]
                   ELSE st.bids,
          txns |-> IF writes >= 3 THEN full.txns ELSE st.txns,
          conversations |-> IF writes >= 5 THEN full.conversations
                            ELSE st.conversations]

\* the auctions whose iteration throws before its last write
FailedAuctions(highest, writes) ==
    {p \in DOMAIN writes :
        writes[p] < (IF highest[p] = NULL THEN 1 ELSE AuctionWrites)}

RECURSIVE CloseAuctionsPartly(_, _, _, _)
CloseAuctionsPartly(order, highest, writes, st) ==
    IF order = <<>> THEN st
    ELSE CloseAuctionsPartly(Tail(order), highest, writes,
             CloseAuctionPartly(Head(order), highest[Head(order)], st,
                                writes[Head(order)]))

ExpireBidsJobFailing(order, highest, writes) ==
    /\ inflight = <<>>
    /\ order \in Orderings(ExpiredBiddingProducts)
    /\ highest \in [ExpiredBiddingProducts -> Ids(bids) \cup {NULL}]
    /\ \A p \in ExpiredBiddingProducts : highest[p] \in HighestBid(p)
    /\ writes \in [ExpiredBiddingProducts -> 0..AuctionWrites]
    /\ LET st == CloseAuctionsPartly(
                    Processed(order, FailedAuctions(highest, writes)),
                    highest, writes,
                    [products |-> products, bids |-> bids, txns |-> txns,
                     conversations |-> conversations])
       IN  /\ Len(st.txns) <= MaxTxns
           /\ products' = st.products
           /\ bids' = st.bids
           /\ txns' = st.txns
           /\ conversations' = st.conversations
    /\ Reply("expireBidsJob", 0)
    /\ logged' = IF FailedAuctions(highest, writes) = {} THEN {} ELSE {"error"}
    /\ UNCHANGED <<now, offers, buys, inflight, reviews, sessions, locationUpdates>>

ExpireTransactionsJobFailing(order, writes) ==
    LET failed == {t \in DOMAIN writes : writes[t] < TransactionWrites}
        rows == Range(Processed(order, failed))
    IN
    /\ inflight = <<>>
    /\ order \in Orderings(ExpiredTransactions)
    /\ writes \in [ExpiredTransactions -> 0..TransactionWrites]
    /\ txns' = ExpireRows(txns, {t \in rows : writes[t] >= 1}, "expired")
    /\ offers' = ExpireRows(offers, {txns[t].offerId : t \in {r \in rows : writes[r] >= 2}},
                            "expired")
    /\ buys' = ExpireRows(buys, {txns[t].buyId : t \in {r \in rows : writes[r] >= 3}},
                          "expired")
    /\ bids' = ExpireRows(bids, {txns[t].bidId : t \in {r \in rows : writes[r] >= 4}},
                          "expired")
    /\ products' = ExpireRows(products,
                              {txns[t].productId : t \in {r \in rows : writes[r] >= 5}},
                              "active")
    /\ Reply("expireTransactionsJob", 0)
    /\ logged' = IF failed = {} THEN {} ELSE {"error"}
    /\ UNCHANGED <<now, conversations, inflight, reviews, sessions, locationUpdates>>

\* one update per session: a failing row writes nothing
ExpireLocationSharingJobFailing(order, failed) ==
    LET rows == Range(Processed(order, failed)) \ failed IN
    /\ inflight = <<>>
    /\ order \in Orderings(ExpiredSessions)
    /\ failed \subseteq ExpiredSessions
    /\ sessions' = [i \in DOMAIN sessions |->
                      IF i \in rows THEN ExpireSession(sessions[i]) ELSE sessions[i]]
    /\ Reply("expireLocationSharingJob", 0)
    /\ logged' = IF failed = {} THEN {} ELSE {"error"}
    /\ UNCHANGED <<now, db, inflight, reviews, locationUpdates>>

----------------------------------------------------------------------------
\* Side effects: in-app notification, push, SMS, realtime event, ledger

SideEffects == {"notification", "push", "sms", "realtime", "ledger"}

\* the failures that come back to the caller as a rejected promise:
\* createNotification, sendSMS and registerTransactionToBlockchain throw;
\* sendPushNotification catches its own errors and io.to(...).emit(...)
\* hands the event to the socket server and returns
Rejections(failed) == failed \cap {"notification", "sms", "ledger"}

\* Uncaught for a side effect that is awaited with no catch
Uncaught_Awaited(rejections) == rejections

\* sideEffect(...).catch((err) => console.error(...)): every rejection is
\* logged and none is thrown on
Uncaught(rejections) == {}

\* catch (error) { console.error(...); throw error; } around a handler
Thrown(op) ==
    /\ Reply(op, 500)
    /\ logged' = {"error"}
    /\ UNCHANGED <<now, db, inflight, reviews, sessions, locationUpdates>>

\* placeBid with notifyOutbid and notifyNewBid
PlaceBidNotifying(userId, productId, bidAmount, failed) ==
    LET rejections == Rejections(failed \cap {"notification", "push"}) IN
    IF Uncaught(rejections) # {} THEN Thrown("placeBid")
    ELSE /\ PlaceBid(userId, productId, bidAmount)
         /\ logged' = IF res'.code = 201 THEN rejections ELSE {}
         /\ UNCHANGED <<reviews, sessions, locationUpdates>>

\* acceptOffer with the offer_accepted event and notifyOfferAccepted
AcceptOfferNotifying(userId, id, failed) ==
    LET rejections == Rejections(failed \cap {"realtime", "notification", "push"}) IN
    IF Uncaught(rejections) # {} THEN Thrown("acceptOffer")
    ELSE /\ AcceptOffer(userId, id)
         /\ logged' = IF res'.code = 200 THEN rejections ELSE {}
         /\ UNCHANGED <<reviews, sessions, locationUpdates>>

\* markAsSold with registerTransactionToBlockchain, the transaction_completed
\* event, notifyTransactionCompleted and notifyProductSold
MarkAsSoldNotifying(userId, transactionId, failed) ==
    LET rejections ==
          Rejections(failed \cap {"ledger", "realtime", "notification", "push"}) IN
    IF Uncaught(rejections) # {} THEN Thrown("markAsSold")
    ELSE /\ MarkAsSold(userId, transactionId)
         /\ logged' = IF res'.code = 200 THEN rejections ELSE {}
         /\ UNCHANGED <<reviews, sessions, locationUpdates>>

\* cancelTransaction with the transaction_cancelled event and
\* notifyTransactionCancelled
CancelTransactionNotifying(userId, transactionId, failed) ==
    LET rejections == Rejections(failed \cap {"realtime", "notification", "push"}) IN
    IF Uncaught(rejections) # {} THEN Thrown("cancelTransaction")
    ELSE /\ CancelTransaction(userId, transactionId)
         /\ logged' = IF res'.code = 200 THEN rejections ELSE {}
         /\ UNCHANGED <<reviews, sessions, locationUpdates>>

\* expireBidsJob with the bid_won and bidding_ended events, notifyBidWon and
\* sendSMS, all sent after the row's writes and inside the row's try block
ExpireBidsJobNotifying(failed) ==
    LET rejections ==
          Rejections(failed \cap {"realtime", "notification", "push", "sms"}) IN
    /\ ExpireBidsJob
    /\ logged' = IF Len(txns') > Len(txns) THEN rejections ELSE {}
    /\ UNCHANGED <<reviews, sessions, locationUpdates>>

----------------------------------------------------------------------------
\* Specifications

Product(saleType, price, minimumBid, biddingEndsAt, allowOffers) ==
    [sellerId |-> Seller, saleType |-> saleType, price |-> price,
     minimumBid |-> minimumBid, biddingEndsAt |-> biddingEndsAt,
     allowOffers |-> allowOffers, status |-> "active", soldTo |-> NULL]

BiddingListings ==
    {Product("bidding", 100, 10, 2, FALSE),
     Product("bidding", 8, 1, 2, FALSE),
     Product("bidding", 8, 2, NULL, FALSE),
     Product("bidding", 8, NULL, 2, FALSE),
     Product("fixed", 8, NULL, NULL, FALSE)}

InitBid ==
    /\ now = 0
    /\ products \in [{1} -> BiddingListings]
    /\ bids = <<>> /\ offers = <<>> /\ buys = <<>> /\ txns = <<>>
    /\ conversations = <<>> /\ inflight = <<>>
    /\ res = NoResponse
    /\ reviews = <<>> /\ sessions = <<>> /\ logged = {}
    /\ locationUpdates = <<>>

NextBid ==
    \/ \E userId \in Users, productId \in DOMAIN products, bidAmount \in BidAmounts :
         PlaceBid(userId, productId, bidAmount) /\ UNCHANGED others
    \/ Tick /\ UNCHANGED others

SpecBid == InitBid /\ [][NextBid]_vars

\* two placeBid requests in flight against one auction whose valid amounts
\* all print with three digits
InitConc ==
    /\ now = 0
    /\ products = [p \in {1} |-> Product("bidding", 100, 10, 2, FALSE)]
    /\ bids = <<>> /\ offers = <<>> /\ buys = <<>> /\ txns = <<>>
    /\ conversations = <<>>
    /\ inflight = [r \in 1..MaxRequests |-> Idle]
    /\ res = NoResponse
    /\ reviews = <<>> /\ sessions = <<>> /\ logged = {}
    /\ locationUpdates = <<>>

NextConc ==
    \/ \E r \in DOMAIN inflight, userId \in Users, productId \in DOMAIN products,
          bidAmount \in BidAmounts :
         BeginPlaceBid(r, userId, productId, bidAmount) /\ UNCHANGED others
    \/ \E r \in DOMAIN inflight : SelectHighestBid(r) /\ UNCHANGED others
    \/ \E r \in DOMAIN inflight : UpdateOutbid(r) /\ UNCHANGED others
    \/ \E r \in DOMAIN inflight : InsertBid(r) /\ UNCHANGED others
    \/ Tick /\ UNCHANGED others

SpecConc == InitConc /\ [][NextConc]_vars

\* one listing open to offers
OfferAmounts == {5, 6}

InitOffer ==
    /\ now = 0
    /\ products = [p \in {1} |-> Product("negotiable", 8, NULL, NULL, TRUE)]
    /\ bids = <<>> /\ offers = <<>> /\ buys = <<>> /\ txns = <<>>
    /\ conversations = <<>> /\ inflight = <<>>
    /\ res = NoResponse
    /\ reviews = <<>> /\ sessions = <<>> /\ logged = {}
    /\ locationUpdates = <<>>

NextOffer ==
    \/ \E userId \in Users, productId \in DOMAIN products, offerAmount \in OfferAmounts :
         CreateOffer(userId, productId, offerAmount) /\ UNCHANGED others
    \/ \E userId \in Users, id \in Ids(offers) : AcceptOffer(userId, id) /\ UNCHANGED others
    \/ \E userId \in Users, id \in Ids(offers) : RejectOffer(userId, id) /\ UNCHANGED others
    \/ \E userId \in Users, id \in Ids(offers), newAmount \in OfferAmounts :
         UpdateOfferAmount(userId, id, newAmount) /\ UNCHANGED others
    \/ \E userId \in Users, transactionId \in Ids(txns) :
         CancelTransaction(userId, transactionId) /\ UNCHANGED others

SpecOffer == InitOffer /\ [][NextOffer]_vars

\* the same listing, the buyer naming a price through the conversation or
\* amending the offer, before and after the seller's answer
NextNegotiate ==
    \/ \E productId \in DOMAIN products, offerPrice \in {5, 6} :
         CreateNegotiableConversation("b1", Seller, productId, offerPrice) /\ UNCHANGED others
    \/ \E userId \in Users, id \in Ids(offers) : AcceptOffer(userId, id) /\ UNCHANGED others
    \/ \E userId \in Users, id \in Ids(offers) : RejectOffer(userId, id) /\ UNCHANGED others
    \/ \E userId \in Users, id \in Ids(offers), newAmount \in {5, 6} :
         UpdateOfferAmount(userId, id, newAmount) /\ UNCHANGED others
    \/ \E transactionId \in Ids(txns) : MarkAsSold(Seller, transactionId) /\ UNCHANGED others
    \/ \E userId \in Users, transactionId \in Ids(txns) :
         CancelTransaction(userId, transactionId) /\ UNCHANGED others

SpecNegotiate == InitOffer /\ [][NextNegotiate]_vars

\* the same listing, acceptOffer running one await at a time
NextSteps ==
    \/ \E userId \in Users, productId \in DOMAIN products, offerAmount \in OfferAmounts :
         CreateOffer(userId, productId, offerAmount) /\ UNCHANGED others
    \/ \E userId \in Users, id \in Ids(offers) :
         UpdateOfferAccepted(userId, id) /\ UNCHANGED others
    \/ InsertOfferTransaction /\ UNCHANGED others
    \/ \E userId \in Users, id \in Ids(offers) : RejectOffer(userId, id) /\ UNCHANGED others
    \/ \E userId \in Users, transactionId \in Ids(txns) :
         CancelTransaction(userId, transactionId) /\ UNCHANGED others

SpecSteps == InitOffer /\ [][NextSteps]_vars

\* the same listing with the handlers that answer and amend an offer, called
\* by every user, with and without a new amount
NextRespond ==
    \/ \E userId \in Users, productId \in DOMAIN products :
         CreateOffer(userId, productId, 5) /\ UNCHANGED others
    \/ \E userId \in Users, id \in Ids(offers) : AcceptOffer(userId, id) /\ UNCHANGED others
    \/ \E userId \in Users, id \in Ids(offers) : RejectOffer(userId, id) /\ UNCHANGED others
    \/ \E userId \in Users, id \in Ids(offers), newAmount \in {6, NULL} :
         UpdateOfferAmount(userId, id, newAmount) /\ UNCHANGED others

SpecRespond == InitOffer /\ [][NextRespond]_vars

\* one transaction just created from an accepted offer, a confirmed buy or a
\* closed auction, and the meetup handlers acting on it
Accepted(row, status) == [row EXCEPT !.status = status]

Tables(productRows, bidRows, offerRows, buyRows, txnRows, conversationRows) ==
    [products |-> productRows, bids |-> bidRows, offers |-> offerRows,
     buys |-> buyRows, txns |-> txnRows, conversations |-> conversationRows]

AfterAcceptOffer ==
    Tables([p \in {1} |-> Product("negotiable", 8, NULL, NULL, TRUE)],
           <<>>,
           <<Accepted(NewOffer(1, "b1", Seller, 5), "accepted")>>,
           <<>>,
           <<[NewTransaction(1, NULL, NULL, 1, "b1", Seller, 5)
                EXCEPT !.expiresAt = TWENTY_FOUR_HOURS]>>,
           <<>>)

AfterConfirmBuy ==
    Tables([p \in {1} |-> Product("fixed", 8, NULL, NULL, FALSE)],
           <<>>,
           <<>>,
           <<Accepted(NewBuy(1, "b1", Seller, 8), "confirmed_pending_meetup")>>,
           <<[NewTransaction(NULL, 1, NULL, 1, "b1", Seller, 8)
                EXCEPT !.expiresAt = TWENTY_FOUR_HOURS]>>,
           <<NewConversation("b1", Seller, 1, NULL, 1, NULL, 1)>>)

AfterAuctionClose ==
    Tables([p \in {1} |-> [Product("bidding", 8, 1, -1, FALSE)
                             EXCEPT !.status = "in_transaction"]],
           <<Accepted(NewBid(1, "b2", 9), "won"), Accepted(NewBid(1, "b1", 10), "lost")>>,
           <<>>,
           <<>>,
           <<[NewTransaction(NULL, NULL, 1, 1, "b2", Seller, 9)
                EXCEPT !.expiresAt = TWENTY_FOUR_HOURS]>>,
           <<NewConversation("b2", Seller, 1, NULL, NULL, 1, 1)>>)

MeetupDelays == {0, 1, 2}

InitMeetup ==
    /\ now = 0
    /\ \E st \in {AfterAcceptOffer, AfterConfirmBuy, AfterAuctionClose} :
         /\ products = st.products /\ bids = st.bids /\ offers = st.offers
         /\ buys = st.buys /\ txns = st.txns /\ conversations = st.conversations
    /\ inflight = <<>>
    /\ res = NoResponse
    /\ reviews = <<>> /\ sessions = <<>> /\ logged = {}
    /\ locationUpdates = <<>>

NextMeetup ==
    \/ \E userId \in Users, transactionId \in Ids(txns), delay \in MeetupDelays :
         ProposeMeetup(userId, transactionId, now + delay) /\ UNCHANGED others
    \/ \E userId \in Users, transactionId \in Ids(txns) : AcceptMeetup(userId, transactionId) /\ UNCHANGED others
    \/ \E userId \in Users, transactionId \in Ids(txns) : MarkAsSold(userId, transactionId) /\ UNCHANGED others
    \/ \E userId \in Users, transactionId \in Ids(txns) :
         CancelTransaction(userId, transactionId) /\ UNCHANGED others
    \/ Tick /\ UNCHANGED others

SpecMeetup == InitMeetup /\ [][NextMeetup]_vars

\* two auctions ending together, their bids and the auction-close sweep
SweepAmounts == {9, 10}

InitSweep ==
    /\ now = 0
    /\ products = [p \in {1, 2} |-> Product("bidding", 8, 1, 1, FALSE)]
    /\ bids = <<>> /\ offers = <<>> /\ buys = <<>> /\ txns = <<>>
    /\ conversations = <<>> /\ inflight = <<>>
    /\ res = NoResponse
    /\ reviews = <<>> /\ sessions = <<>> /\ logged = {}
    /\ locationUpdates = <<>>

NextSweep ==
    \/ \E userId \in Users, productId \in DOMAIN products, bidAmount \in SweepAmounts :
         PlaceBid(userId, productId, bidAmount) /\ UNCHANGED others
    \/ ExpireBidsJob /\ UNCHANGED others
    \/ Tick /\ UNCHANGED others

SpecSweep == InitSweep /\ [][NextSweep]_vars

\* one listing with a bid, an offer and a buy request, up to the
\* transactions they lead to: b1 bids, b2 negotiates and asks to buy
InitLife ==
    /\ now = 0
    /\ products = [p \in {1} |-> Product("bidding", 8, 1, 1, FALSE)]
    /\ bids = <<>> /\ offers = <<>> /\ buys = <<>> /\ txns = <<>>
    /\ conversations = <<>> /\ inflight = <<>>
    /\ res = NoResponse
    /\ reviews = <<>> /\ sessions = <<>> /\ logged = {}
    /\ locationUpdates = <<>>

NextLife ==
    \/ \E productId \in DOMAIN products : PlaceBid("b1", productId, 9) /\ UNCHANGED others
    \/ \E productId \in DOMAIN products :
         CreateNegotiableConversation("b2", Seller, productId, 5) /\ UNCHANGED others
    \/ \E productId \in DOMAIN products : CreateBuyConversation("b2", Seller, productId) /\ UNCHANGED others
    \/ \E userId \in Users, id \in Ids(offers) : AcceptOffer(userId, id) /\ UNCHANGED others
    \/ \E userId \in Users, id \in Ids(buys) : ConfirmBuy(userId, id) /\ UNCHANGED others
    \/ ExpireBidsJob /\ UNCHANGED others
    \/ Tick /\ UNCHANGED others

SpecLife == InitLife /\ [][NextLife]_vars

\* one auction, an offer on the same listing, and the transactions they lead
\* to carried to their end: sold, or cancelled and the listing back on sale
InitResale ==
    /\ now = 0
    /\ products = [p \in {1} |-> Product("bidding", 8, 1, 1, FALSE)]
    /\ bids = <<>> /\ offers = <<>> /\ buys = <<>> /\ txns = <<>>
    /\ conversations = <<>> /\ inflight = <<>>
    /\ res = NoResponse
    /\ reviews = <<>> /\ sessions = <<>> /\ logged = {}
    /\ locationUpdates = <<>>

NextResale ==
    \/ \E productId \in DOMAIN products : PlaceBid("b1", productId, 9) /\ UNCHANGED others
    \/ \E productId \in DOMAIN products :
         CreateNegotiableConversation("b2", Seller, productId, 5) /\ UNCHANGED others
    \/ \E id \in Ids(offers) : AcceptOffer(Seller, id) /\ UNCHANGED others
    \/ ExpireBidsJob /\ UNCHANGED others
    \/ \E transactionId \in Ids(txns) : ProposeMeetup(Seller, transactionId, now + 2) /\ UNCHANGED others
    \/ \E transactionId \in Ids(txns) :
         AcceptMeetup(txns[transactionId].buyerId, transactionId) /\ UNCHANGED others
    \/ \E transactionId \in Ids(txns) : MarkAsSold(Seller, transactionId) /\ UNCHANGED others
    \/ \E transactionId \in Ids(txns) : CancelTransaction(Seller, transactionId) /\ UNCHANGED others
    \/ Tick /\ UNCHANGED others

SpecResale == InitResale /\ [][NextResale]_vars

\* transactions of every origin, their meetups, and the days after
AfterTwoAcceptances ==
    Tables([p \in {1, 2} |-> Product("fixed", 8, NULL, NULL, TRUE)],
           <<>>,
           <<Accepted(NewOffer(1, "b1", Seller, 5), "accepted")>>,
           <<Accepted(NewBuy(2, "b2", Seller, 8), "confirmed_pending_meetup")>>,
           <<[NewTransaction(1, NULL, NULL, 1, "b1", Seller, 5)
                EXCEPT !.expiresAt = TWENTY_FOUR_HOURS],
             [NewTransaction(NULL, 1, NULL, 2, "b2", Seller, 8)
                EXCEPT !.expiresAt = TWENTY_FOUR_HOURS]>>,
           <<NewConversation("b2", Seller, 2, NULL, 1, NULL, 2)>>)

InitExpiry ==
    /\ now = 0
    /\ \E st \in {AfterAuctionClose, AfterTwoAcceptances} :
         /\ products = st.products /\ bids = st.bids /\ offers = st.offers
         /\ buys = st.buys /\ txns = st.txns /\ conversations = st.conversations
    /\ inflight = <<>>
    /\ res = NoResponse
    /\ reviews = <<>> /\ sessions = <<>> /\ logged = {}
    /\ locationUpdates = <<>>

NextExpiry ==
    \/ \E transactionId \in Ids(txns) : ProposeMeetup(Seller, transactionId, now + 1) /\ UNCHANGED others
    \/ \E transactionId \in Ids(txns) :
         AcceptMeetup(txns[transactionId].buyerId, transactionId) /\ UNCHANGED others
    \/ \E transactionId \in Ids(txns) : MarkAsSold(Seller, transactionId) /\ UNCHANGED others
    \/ \E transactionId \in Ids(txns) : CancelTransaction(Seller, transactionId) /\ UNCHANGED others
    \/ ExpireTransactionsJob /\ UNCHANGED others
    \/ Tick /\ UNCHANGED others
    \/ Wait /\ UNCHANGED others

SpecExpiry == InitExpiry /\ [][NextExpiry]_vars

\* the same, the cron schedule running the sweep again and again while the
\* clock goes on
SpecExpiryFair ==
    /\ SpecExpiry
    /\ WF_vars(ExpireTransactionsJob /\ UNCHANGED others)
    /\ WF_vars(Tick /\ UNCHANGED others)
    /\ WF_vars(Wait /\ UNCHANGED others)

\* the moment before each sweep has two rows to process: two ended auctions,
\* one with a bid; two transactions a day past their meetup; two sessions
\* shared for two hours.  The store may fail on any row at any write.
EndedAuctions ==
    Tables([p \in {1, 2} |-> Product("bidding", 8, 1, 1, FALSE)],
           <<NewBid(1, "b1", 9)>>, <<>>, <<>>, <<>>, <<>>)

PastMeetups ==
    [AfterTwoAcceptances EXCEPT
       !.txns = [t \in {1, 2} |->
                   [AfterTwoAcceptances.txns[t] EXCEPT
                      !.meetupStatus = "scheduled", !.scheduledMeetupAt = 1,
                      !.meetupProposedBy = Seller]]]

TwoConversations ==
    Tables([p \in {1} |-> Product("negotiable", 8, NULL, NULL, TRUE)],
           <<>>, <<>>, <<>>, <<>>,
           <<NewConversation("b1", Seller, 1, NULL, NULL, NULL, NULL),
             NewConversation("b2", Seller, 1, NULL, NULL, NULL, NULL)>>)

LongSessions ==
    <<[conversationId |-> 1, participant1Sharing |-> TRUE, participant2Sharing |-> TRUE,
       participant1StartedAt |-> 1, participant2StartedAt |-> 2,
       participant1StoppedAt |-> NULL, participant2StoppedAt |-> NULL,
       status |-> "active"],
      [conversationId |-> 2, participant1Sharing |-> TRUE, participant2Sharing |-> FALSE,
       participant1StartedAt |-> 1, participant2StartedAt |-> NULL,
       participant1StoppedAt |-> NULL, participant2StoppedAt |-> NULL,
       status |-> "active"]>>

InitBatch ==
    /\ \E at \in {2, 3, 26} :
         /\ now = at
         /\ LET st == IF at = 2 THEN EndedAuctions
                      ELSE IF at = 3 THEN TwoConversations ELSE PastMeetups
            IN  /\ products = st.products /\ bids = st.bids /\ offers = st.offers
                /\ buys = st.buys /\ txns = st.txns
                /\ conversations = st.conversations
         /\ sessions = IF at = 3 THEN LongSessions ELSE <<>>
    /\ inflight = <<>>
    /\ res = NoResponse
    /\ reviews = <<>> /\ logged = {}
    /\ locationUpdates = <<>>

NextBatch ==
    \/ \E order \in Orderings(ExpiredBiddingProducts),
          highest \in [ExpiredBiddingProducts -> Ids(bids) \cup {NULL}],
          writes \in [ExpiredBiddingProducts -> 0..AuctionWrites] :
         ExpireBidsJobFailing(order, highest, writes)
    \/ \E order \in Orderings(ExpiredTransactions),
          writes \in [ExpiredTransactions -> 0..TransactionWrites] :
         ExpireTransactionsJobFailing(order, writes)
    \/ \E order \in Orderings(ExpiredSessions), failed \in SUBSET ExpiredSessions :
         ExpireLocationSharingJobFailing(order, failed)
    \/ Tick /\ UNCHANGED others

SpecBatch == InitBatch /\ [][NextBatch]_vars

\* a conversation whose participants share and stop sharing their location
\* while the sweep runs
InitSharing ==
    /\ now = 1
    /\ products = [p \in {1} |-> Product("negotiable", 8, NULL, NULL, TRUE)]
    /\ bids = <<>> /\ offers = <<>> /\ buys = <<>> /\ txns = <<>>
    /\ conversations = <<NewConversation("b1", Seller, 1, NULL, NULL, NULL, NULL)>>
    /\ inflight = <<>>
    /\ res = NoResponse
    /\ reviews = <<>> /\ sessions = <<>> /\ logged = {}
    /\ locationUpdates = <<>>

NextSharing ==
    \/ \E userId \in Users, conversationId \in Ids(conversations) :
         StartLocationSharing(userId, conversationId)
    \/ \E userId \in Users, conversationId \in Ids(conversations) :
         StopLocationSharing(userId, conversationId)
    \/ ExpireLocationSharingJob
    \/ Tick /\ UNCHANGED others

SpecSharing == InitSharing /\ [][NextSharing]_vars

\* an auction open to an offer, and a transaction with a confirmed meetup,
\* each handler running while some side effects fail
OpenAuction ==
    Tables([p \in {1} |-> Product("bidding", 8, 1, 1, FALSE)],
           <<>>, <<>>, <<>>, <<>>, <<>>)

AfterAcceptMeetup ==
    [AfterAcceptOffer EXCEPT
       !.txns = <<[AfterAcceptOffer.txns[1] EXCEPT
                     !.meetupStatus = "confirmed", !.scheduledMeetupAt = 2,
                     !.meetupProposedBy = Seller]>>]

InitEffects ==
    /\ now = 0
    /\ \E st \in {OpenAuction, AfterAcceptMeetup} :
         /\ products = st.products /\ bids = st.bids /\ offers = st.offers
         /\ buys = st.buys /\ txns = st.txns /\ conversations = st.conversations
    /\ inflight = <<>>
    /\ res = NoResponse
    /\ reviews = <<>> /\ sessions = <<>> /\ logged = {}
    /\ locationUpdates = <<>>

Failures == {{}, {"push", "realtime"}, SideEffects}

NextEffects ==
    \/ \E productId \in DOMAIN products, failed \in Failures :
         PlaceBidNotifying("b1", productId, 9, failed)
    \/ \E productId \in DOMAIN products :
         CreateNegotiableConversation("b2", Seller, productId, 5) /\ UNCHANGED others
    \/ \E id \in Ids(offers), failed \in Failures :
         AcceptOfferNotifying(Seller, id, failed)
    \/ \E failed \in Failures : ExpireBidsJobNotifying(failed)
    \/ \E transactionId \in Ids(txns), failed \in Failures :
         MarkAsSoldNotifying(Seller, transactionId, failed)
    \/ \E transactionId \in Ids(txns), failed \in Failures :
         CancelTransactionNotifying(txns[transactionId].buyerId, transactionId, failed)
    \/ Tick /\ UNCHANGED others

SpecEffects == InitEffects /\ [][NextEffects]_vars

----------------------------------------------------------------------------
\* Properties of bidding

ActiveBids(productId) == {i \in BidsOf(productId) : bids[i].status = "active"}

AuctionOpen(productId) ==
    products[productId].saleType = "bidding" /\ products[productId].status = "active"

\* the numerically greatest amount bid on a product
HighBidAmount(productId) ==
    CHOOSE h \in {bids[i].bidAmount : i \in BidsOf(productId)} :
        \A i \in BidsOf(productId) : bids[i].bidAmount <= h

HighBids(productId) ==
    {i \in BidsOf(productId) : bids[i].bidAmount = HighBidAmount(productId)}

WindowOpen(product) == product.biddingEndsAt = NULL \/ now <= product.biddingEndsAt

Increment(product) == product.minimumBid

\* C1: before auction close at most one bid of a product is active (the
\* current high bid) and every other bid of the product is outbid.
C1_OneActiveBid ==
    \A p \in DOMAIN products :
        AuctionOpen(p) =>
            /\ Cardinality(ActiveBids(p)) <= 1
            /\ \A i \in BidsOf(p) : bids[i].status \in {"active", "outbid"}

\* C2: interleaved placeBid requests on one product never leave two active
\* bids, nor an accepted bid that does not strictly exceed every bid
\* accepted before it.
C2_BidAcceptanceLinearized ==
    \A p \in DOMAIN products :
        /\ Cardinality(ActiveBids(p)) <= 1
        /\ \A i, j \in BidsOf(p) : i < j => bids[i].bidAmount < bids[j].bidAmount

\* C6: with a high bid h and increment m > 0, a bid of h + k*m (k >= 1) by a
\* non-seller before biddingEndsAt is accepted, the new bid is active and
\* the previous high bid goes from active to outbid; an amount above h that
\* is not h plus a multiple of m is rejected.
C6_IncrementRule ==
    [][\A u \in Users, p \in DOMAIN products, a \in BidAmounts :
        ( /\ PlaceBid(u, p, a)
          /\ products[p].saleType = "bidding"
          /\ u # products[p].sellerId
          /\ products[p].biddingEndsAt # NULL /\ now < products[p].biddingEndsAt
          /\ BidsOf(p) # {}
          /\ Increment(products[p]) > 0
          /\ a > HighBidAmount(p) )
        => IF (a - HighBidAmount(p)) % Increment(products[p]) = 0
           THEN /\ res'.code = 201
                /\ Len(bids') = Len(bids) + 1
                /\ bids'[Len(bids')] = NewBid(p, u, a)
                /\ \A i \in HighBids(p) :
                      bids[i].status = "active" /\ bids'[i].status = "outbid"
           ELSE res'.code = 400 /\ bids' = bids
      ]_vars

\* C7: with no prior bid, a bid is accepted exactly when amount >= price +
\* minimumBid and amount - price is a multiple of minimumBid; price 100 and
\* minimumBid 10: 105 rejected, 110 and 120 accepted.
C7_FirstBidRule ==
    [][\A u \in Users, p \in DOMAIN products, a \in BidAmounts :
        ( /\ PlaceBid(u, p, a)
          /\ products[p].saleType = "bidding"
          /\ u # products[p].sellerId
          /\ WindowOpen(products[p])
          /\ BidsOf(p) = {} )
        => LET price == products[p].price
               m == Increment(products[p])
           IN /\ IF a >= price + m /\ (m > 0 => (a - price) % m = 0)
                 THEN res'.code = 201 /\ bids' = Append(bids, NewBid(p, u, a))
                 ELSE res'.code = 400 /\ bids' = bids
              /\ (price = 100 /\ m = 10 /\ a = 105) => res'.code = 400
              /\ (price = 100 /\ m = 10 /\ a \in {110, 120}) => res'.code = 201
      ]_vars

C7_Witness ==
    /\ res = [op |-> "placeBid", code |-> 201]
    /\ Len(bids) = 1
    /\ bids[1].bidAmount = 110 /\ bids[1].status = "active"
    /\ products[bids[1].productId].price = 100
    /\ products[bids[1].productId].minimumBid = 10

\* C8: placeBid is rejected and changes no bid and no product when the
\* product is not a bidding product, now >= biddingEndsAt, the bidder is the
\* seller, the amount is below the starting price, or the amount is not
\* above the current high bid.
C8_RejectedBidChangesNothing ==
    [][\A u \in Users, p \in DOMAIN products, a \in BidAmounts :
        ( /\ PlaceBid(u, p, a)
          /\ \/ products[p].saleType # "bidding"
             \/ products[p].biddingEndsAt # NULL /\ now >= products[p].biddingEndsAt
             \/ u = products[p].sellerId
             \/ a < products[p].price
             \/ BidsOf(p) # {} /\ a <= HighBidAmount(p) )
        => res'.code = 400 /\ bids' = bids /\ products' = products
      ]_vars

----------------------------------------------------------------------------
\* Properties of transactions

ActiveTransactions(productId) ==
    {t \in Ids(txns) : txns[t].productId = productId /\ txns[t].status = "active"}

\* C3: every product is referenced by at most one active transaction.
C3_OneActiveTransaction ==
    \A p \in DOMAIN products : Cardinality(ActiveTransactions(p)) <= 1

\* C4: acceptOffer by the offer's seller on a pending offer creates exactly
\* one transaction with origin = that offer, agreedPrice = the offer amount,
\* status active and meetupStatus not_scheduled, and moves the product from
\* active to in_transaction.
C4_AcceptOfferCreatesTransaction ==
    [][\A u \in Users, id \in Ids(offers) :
        ( /\ AcceptOffer(u, id)
          /\ u = offers[id].sellerId
          /\ offers[id].status = "pending"
          /\ products[offers[id].productId].status = "active" )
        => /\ Len(txns') = Len(txns) + 1
           /\ \A t \in Ids(txns) : txns'[t] = txns[t]
           /\ LET transaction == txns'[Len(txns')]
              IN /\ transaction.offerId = id
                 /\ transaction.buyId = NULL /\ transaction.bidId = NULL
                 /\ transaction.agreedPrice = offers[id].offerAmount
                 /\ transaction.status = "active"
                 /\ transaction.meetupStatus = "not_scheduled"
           /\ products'[offers[id].productId].status = "in_transaction"
      ]_vars

\* C5: a product is in_transaction if and only if exactly one active
\* transaction references it; with no active transaction it is active, sold
\* or expired, and with an active transaction it is never active.
C5_ProductStatusTracksTransaction ==
    \A p \in DOMAIN products :
        LET n == Cardinality(ActiveTransactions(p)) IN
        /\ products[p].status = "in_transaction" <=> n = 1
        /\ n = 0 => products[p].status \in {"active", "sold", "expired"}
        /\ n >= 1 => products[p].status # "active"

MeetupScheduled(transaction) == transaction.meetupStatus \in {"scheduled", "confirmed"}

\* C9: cancelTransaction by the buyer or seller of an active transaction with
\* a scheduled meetup fails and changes nothing when now is within one hour
\* of scheduledMeetupAt or past it; more than one hour before, it succeeds
\* and the product becomes active.
C9_CancelLockout ==
    [][\A u \in Users, t \in Ids(txns) :
        ( /\ CancelTransaction(u, t)
          /\ u \in {txns[t].buyerId, txns[t].sellerId}
          /\ txns[t].status = "active"
          /\ MeetupScheduled(txns[t]) )
        => IF now + ONE_HOUR >= txns[t].scheduledMeetupAt
           THEN /\ res'.code = 400
                /\ UNCHANGED <<txns, offers, buys, bids, products>>
           ELSE /\ res'.code = 200
                /\ txns'[t].status \in {"cancelled_by_buyer", "cancelled_by_seller"}
                /\ products'[txns[t].productId].status = "active"
      ]_vars

C9_Witness ==
    /\ res = [op |-> "cancelTransaction", code |-> 400]
    /\ \E t \in Ids(txns) :
         /\ txns[t].status = "active"
         /\ MeetupScheduled(txns[t])
         /\ now + ONE_HOUR >= txns[t].scheduledMeetupAt

\* C10: markAsSold succeeds only for the seller of an active transaction
\* whose meetup is confirmed; with meetupStatus not_scheduled or scheduled
\* it fails and changes no transaction, product or origin record.
C10_MarkAsSoldGuard ==
    [][\A u \in Users, t \in Ids(txns) :
        MarkAsSold(u, t)
        => /\ res'.code = 200 =>
                /\ u = txns[t].sellerId
                /\ txns[t].meetupStatus = "confirmed"
                /\ txns[t].status = "active"
           /\ txns[t].meetupStatus \in {"not_scheduled", "scheduled"} =>
                /\ res'.code # 200
                /\ UNCHANGED <<txns, products, offers, buys, bids>>
      ]_vars

C10_Witness ==
    /\ res = [op |-> "markAsSold", code |-> 400]
    /\ \E t \in Ids(txns) :
         /\ txns[t].status = "active"
         /\ txns[t].meetupStatus \in {"not_scheduled", "scheduled"}

----------------------------------------------------------------------------
\* Properties of the auction-close sweep

TransactionsOf(table, productId) == {t \in Ids(table) : table[t].productId = productId}

\* C11: a run of the auction-close sweep on an expired bidding product with
\* at least one bid creates exactly one transaction for it and leaves it
\* unselected, and a run that selects no product changes nothing: the
\* second of two runs in succession is a no-op.
C11_SweepIdempotent ==
    [][ExpireBidsJob
        => /\ \A p \in ExpiredBiddingProducts :
                BidsOf(p) # {} =>
                    /\ Cardinality(TransactionsOf(txns', p))
                         = Cardinality(TransactionsOf(txns, p)) + 1
                    /\ p \notin ExpiredBiddingProducts'
           /\ ExpiredBiddingProducts = {} => UNCHANGED db
      ]_vars

C11_Witness ==
    /\ res.op = "expireBidsJob"
    /\ ExpiredBiddingProducts = {}
    /\ \E p \in DOMAIN products :
         /\ BidsOf(p) # {}
         /\ products[p].biddingEndsAt < now
         /\ products[p].status = "in_transaction"
         /\ Cardinality(TransactionsOf(txns, p)) = 1

\* C13: when the sweep processes an ended auction with bids, the highest
\* bid becomes won, no bid of the product stays active (the other active
\* bids become lost), exactly one transaction is created with origin the
\* winning bid, buyer its bidder, seller the product's seller, agreedPrice
\* the bid amount, status active and meetupStatus not_scheduled, and the
\* product becomes in_transaction.
C13_AuctionCloseWithBids ==
    [][ExpireBidsJob
        => \A p \in ExpiredBiddingProducts :
             BidsOf(p) # {} =>
               /\ \E w \in HighBids(p) :
                    /\ bids'[w].status = "won"
                    /\ \A i \in BidsOf(p) \ {w} :
                          bids'[i].status = IF bids[i].status = "active"
                                            THEN "lost" ELSE bids[i].status
                    /\ \E t \in Ids(txns') \ Ids(txns) :
                          /\ TransactionsOf(txns', p) = TransactionsOf(txns, p) \cup {t}
                          /\ txns'[t].bidId = w
                          /\ txns'[t].offerId = NULL /\ txns'[t].buyId = NULL
                          /\ txns'[t].buyerId = bids[w].bidderId
                          /\ txns'[t].sellerId = products[p].sellerId
                          /\ txns'[t].agreedPrice = bids[w].bidAmount
                          /\ txns'[t].status = "active"
                          /\ txns'[t].meetupStatus = "not_scheduled"
               /\ products'[p].status = "in_transaction"
      ]_vars

\* C14: when the sweep processes an ended auction without bids the product
\* becomes expired and no transaction is created, and an expired product
\* stays expired, so that no later sweep selects it.
C14_AuctionCloseWithoutBids ==
    [][/\ ExpireBidsJob
          => \A p \in ExpiredBiddingProducts :
               BidsOf(p) = {} =>
                 /\ products'[p].status = "expired"
                 /\ TransactionsOf(txns', p) = TransactionsOf(txns, p)
       /\ \A p \in DOMAIN products :
            products[p].status = "expired" =>
                products'[p].status = "expired" /\ p \notin ExpiredBiddingProducts'
      ]_vars

----------------------------------------------------------------------------
\* Properties of the origin of a transaction

Origins(transaction) ==
    {kind \in {"offerId", "buyId", "bidId"} : transaction[kind] # NULL}

OriginStatus(transaction) ==
    IF transaction.offerId # NULL THEN offers[transaction.offerId].status
    ELSE IF transaction.buyId # NULL THEN buys[transaction.buyId].status
    ELSE bids[transaction.bidId].status

\* C12: every transaction has exactly one of offerId, buyId and bidId, and
\* the origin record of a completed transaction has status completed.
C12_CompletedOrigin ==
    \A t \in Ids(txns) :
        /\ Cardinality(Origins(txns[t])) = 1
        /\ txns[t].status = "completed" => OriginStatus(txns[t]) = "completed"

----------------------------------------------------------------------------
\* Properties of the transaction-expiry sweep

\* C15: the transaction-expiry sweep moves exactly the active transactions
\* whose scheduledMeetupAt is more than 24 hours in the past to expired,
\* sets their origin record to expired and their product to active, and
\* leaves every other transaction unchanged.
C15_ExpirySweep ==
    [][ExpireTransactionsJob
        => \A t \in Ids(txns) :
             IF /\ txns[t].status = "active"
                /\ txns[t].scheduledMeetupAt # NULL
                /\ now - txns[t].scheduledMeetupAt > TWENTY_FOUR_HOURS
             THEN /\ txns'[t] = [txns[t] EXCEPT !.status = "expired"]
                  /\ OriginStatus(txns[t])' = "expired"
                  /\ products'[txns[t].productId].status = "active"
             ELSE txns'[t] = txns[t]
      ]_vars

C15_Witness ==
    /\ res.op = "expireTransactionsJob"
    /\ \E t, u \in Ids(txns) :
         /\ txns[t].status = "expired"
         /\ OriginStatus(txns[t]) = "expired"
         /\ now - txns[t].scheduledMeetupAt > TWENTY_FOUR_HOURS
         /\ txns[u].status = "active"
         /\ txns[u].scheduledMeetupAt # NULL
         /\ now - txns[u].scheduledMeetupAt = TWENTY_FOUR_HOURS

----------------------------------------------------------------------------
\* Properties of acceptance

\* C16: when acceptOffer, confirmBuy or the auction close creates a
\* transaction, the conversation of the origin record (the one carrying the
\* offer or the buy, or the one between the winning bidder and the seller
\* on the product) has transactionId = the id of that transaction.
C16_ConversationBackfilled ==
    [][/\ \A u \in Users, id \in Ids(offers) :
            AcceptOffer(u, id) /\ res'.code = 200
            => \A c \in Ids(conversations) :
                 conversations[c].offerId = id
                 => /\ conversations'[c].transactionId = Len(txns')
                    /\ txns'[Len(txns')].offerId = id
       /\ \A u \in Users, id \in Ids(buys) :
            ConfirmBuy(u, id) /\ res'.code = 200
            => \A c \in Ids(conversations) :
                 conversations[c].buyId = id
                 => /\ conversations'[c].transactionId = Len(txns')
                    /\ txns'[Len(txns')].buyId = id
       /\ ExpireBidsJob
            => \A t \in Ids(txns') \ Ids(txns) :
                 \E c \in Ids(conversations') :
                    /\ conversations'[c].transactionId = t
                    /\ conversations'[c].bidId = txns'[t].bidId
                    /\ conversations'[c].productId = txns'[t].productId
                    /\ conversations'[c].participant1Id = txns'[t].buyerId
                    /\ conversations'[c].participant2Id = txns'[t].sellerId
      ]_vars

\* the auction close has just run, and both the winning bid's conversation
\* and an accepted offer's conversation name their transactions
C16_Witness ==
    /\ res.op = "expireBidsJob"
    /\ \E c \in Ids(conversations), t \in Ids(txns) :
         /\ conversations[c].transactionId = t
         /\ conversations[c].bidId # NULL
         /\ txns[t].bidId = conversations[c].bidId
    /\ \E c \in Ids(conversations), t \in Ids(txns) :
         /\ conversations[c].transactionId = t
         /\ conversations[c].offerId # NULL
         /\ txns[t].offerId = conversations[c].offerId

\* C17: confirmBuy succeeds only for the buy's seller on a pending buy of an
\* active product; on success the buy is confirmed_pending_meetup and
\* exactly one active transaction with origin that buy and agreedPrice =
\* purchasePrice is created; otherwise it fails and changes nothing.
C17_ConfirmBuy ==
    [][\A u \in Users, id \in Ids(buys) :
        ConfirmBuy(u, id)
        => IF /\ u = buys[id].sellerId
              /\ buys[id].status = "pending"
              /\ products[buys[id].productId].status = "active"
           THEN /\ res'.code = 200
                /\ buys' = [buys EXCEPT ![id].status = "confirmed_pending_meetup"]
                /\ Len(txns') = Len(txns) + 1
                /\ \A t \in Ids(txns) : txns'[t] = txns[t]
                /\ LET transaction == txns'[Len(txns')]
                   IN /\ transaction.buyId = id
                      /\ transaction.offerId = NULL /\ transaction.bidId = NULL
                      /\ transaction.agreedPrice = buys[id].purchasePrice
                      /\ transaction.status = "active"
           ELSE /\ res'.code # 200
                /\ UNCHANGED db
      ]_vars

C17_Witness ==
    /\ res = [op |-> "confirmBuy", code |-> 200]
    /\ \E t \in Ids(txns) :
         /\ txns[t].buyId # NULL
         /\ txns[t].status = "active"
         /\ buys[txns[t].buyId].status = "confirmed_pending_meetup"
         /\ txns[t].agreedPrice = buys[txns[t].buyId].purchasePrice

\* C18: acceptOffer and rejectOffer take effect only for the offer's seller
\* on a pending offer; any other call fails, leaves the offer unchanged and
\* creates no transaction; rejectOffer on success sets the offer to
\* rejected and creates no transaction.
C18_RespondOfferGuard ==
    [][\A u \in Users, id \in Ids(offers) :
        /\ AcceptOffer(u, id)
             => IF u = offers[id].sellerId /\ offers[id].status = "pending"
                THEN /\ res'.code = 200
                     /\ offers' = [offers EXCEPT ![id].status = "accepted"]
                     /\ Len(txns') = Len(txns) + 1
                ELSE res'.code # 200 /\ UNCHANGED <<offers, txns>>
        /\ RejectOffer(u, id)
             => /\ txns' = txns
                /\ IF u = offers[id].sellerId /\ offers[id].status = "pending"
                   THEN /\ res'.code = 200
                        /\ offers' = [offers EXCEPT ![id].status = "rejected"]
                   ELSE res'.code # 200 /\ offers' = offers
      ]_vars

\* the seller's second acceptOffer on an offer already accepted is refused
C18_Witness ==
    /\ res = [op |-> "acceptOffer", code |-> 400]
    /\ \E id \in Ids(offers) :
         /\ offers[id].status = "accepted"
         /\ Cardinality({t \in Ids(txns) : txns[t].offerId = id}) = 1

\* C19: updateOfferAmount by the offer's buyer, with a new amount given,
\* succeeds exactly when the offer is pending or rejected, and then the offer
\* is pending with the new amount; in any other status it fails and the
\* offer is unchanged.
C19_UpdateOfferAmount ==
    [][\A u \in Users, id \in Ids(offers), a \in {6} :
        UpdateOfferAmount(u, id, a) /\ u = offers[id].buyerId
        => IF offers[id].status \in {"pending", "rejected"}
           THEN /\ res'.code = 200
                /\ offers' = [offers EXCEPT ![id].status = "pending",
                                             ![id].offerAmount = a]
           ELSE res'.code # 200 /\ offers' = offers
      ]_vars

\* an offer made at 5, resubmitted at 6 and pending again, beside an accepted
\* offer that updateOfferAmount can no longer touch
C19_Witness ==
    /\ res = [op |-> "updateOfferAmount", code |-> 200]
    /\ \E id, other \in Ids(offers) :
         /\ offers[id].status = "pending" /\ offers[id].offerAmount = 6
         /\ offers[other].status = "accepted"

----------------------------------------------------------------------------
\* Properties of completion

\* C20: a successful markAsSold sets the transaction to completed with
\* sellerConfirmedCompletion true, the product to sold with soldTo = the
\* buyer, and the attached origin record to completed; the transaction's
\* buyerConfirmedCompletion and meetup fields stay as they were.
C20_MarkAsSoldEffect ==
    [][\A u \in Users, t \in Ids(txns) :
        MarkAsSold(u, t) /\ res'.code = 200
        => /\ txns' = [txns EXCEPT ![t].status = "completed",
                                   ![t].sellerConfirmedCompletion = TRUE]
           /\ products'[txns[t].productId] =
                 [products[txns[t].productId] EXCEPT !.status = "sold",
                                                     !.soldTo = txns[t].buyerId]
           /\ OriginStatus(txns[t])' = "completed"
      ]_vars

C20_Witness ==
    /\ res = [op |-> "markAsSold", code |-> 200]
    /\ \E t \in Ids(txns) :
         /\ txns[t].status = "completed"
         /\ txns[t].sellerConfirmedCompletion
         /\ txns[t].meetupStatus = "confirmed"
         /\ products[txns[t].productId].status = "sold"
         /\ OriginStatus(txns[t]) = "completed"

----------------------------------------------------------------------------
\* Properties of cancellation

\* C21: cancelTransaction succeeds only for the buyer or seller of an active
\* transaction; on success the status is cancelled_by_buyer for the buyer and
\* cancelled_by_seller for the seller, cancelledBy is the caller, the origin
\* record is cancelled (a buy takes the cancelled_by_* value) and the product
\* is active.
C21_CancelTransactionEffect ==
    [][\A u \in Users, t \in Ids(txns) :
        CancelTransaction(u, t) /\ res'.code = 200
        => LET newStatus == IF u = txns[t].buyerId THEN "cancelled_by_buyer"
                            ELSE "cancelled_by_seller"
           IN /\ u \in {txns[t].buyerId, txns[t].sellerId}
              /\ txns[t].status = "active"
              /\ txns'[t].status = newStatus
              /\ txns'[t].cancelledBy = u
              /\ OriginStatus(txns[t])' =
                    IF txns[t].buyId # NULL THEN newStatus ELSE "cancelled"
              /\ products'[txns[t].productId].status = "active"
      ]_vars

\* a buyer has cancelled the transaction of a confirmed buy
C21_Witness ==
    /\ res = [op |-> "cancelTransaction", code |-> 200]
    /\ \E t \in Ids(txns) :
         /\ txns[t].status = "cancelled_by_buyer"
         /\ txns[t].cancelledBy = txns[t].buyerId
         /\ txns[t].buyId # NULL
         /\ buys[txns[t].buyId].status = "cancelled_by_buyer"
         /\ products[txns[t].productId].status = "active"

----------------------------------------------------------------------------
\* Properties of side effects

----------------------------------------------------------------------------
\* Properties of location sharing

\* C29: the location-sharing expiry sweep, in every active session where a
\* participant has been sharing for longer than one hour, sets that
\* participant's sharing flag to false and the stop timestamp to now, leaves
\* the other participant's flag unchanged unless it is over the hour too, and
\* ends the session exactly when neither participant is sharing afterwards;
\* every other session is left as it was.
C29_LocationSharingExpiry ==
    [][ExpireLocationSharingJob =>
        \A i \in Ids(sessions) :
          LET old == sessions[i]
              new == sessions'[i]
              over1 == old.participant1Sharing /\ now - old.participant1StartedAt > ONE_HOUR
              over2 == old.participant2Sharing /\ now - old.participant2StartedAt > ONE_HOUR
          IN IF old.status = "active" /\ (over1 \/ over2)
             THEN /\ over1 => ~new.participant1Sharing /\ new.participant1StoppedAt = now
                  /\ over2 => ~new.participant2Sharing /\ new.participant2StoppedAt = now
                  /\ ~over1 => new.participant1Sharing = old.participant1Sharing
                  /\ ~over2 => new.participant2Sharing = old.participant2Sharing
                  /\ new.status = "ended"
                       <=> ~new.participant1Sharing /\ ~new.participant2Sharing
             ELSE new = old
      ]_vars

\* the sweep stopped participant 1, who started two hours ago, and left the
\* session active for participant 2, who started an hour ago
C29_Witness ==
    /\ res = [op |-> "expireLocationSharingJob", code |-> 0]
    /\ \E i \in Ids(sessions) :
         /\ sessions[i].status = "active"
         /\ ~sessions[i].participant1Sharing
         /\ sessions[i].participant1StoppedAt = now
         /\ sessions[i].participant2Sharing
         /\ sessions[i].participant2StartedAt = now - ONE_HOUR

----------------------------------------------------------------------------
\* Properties of the sweeps under failure

\* C23: in each sweep (auction close, transaction expiry, location-sharing
\* expiry) a failure on one row does not abort the batch: every other row
\* the run selected is processed to completion.
C23_BatchSurvivesRowFailure ==
    [][/\ \A order \in Orderings(ExpiredBiddingProducts),
             highest \in [ExpiredBiddingProducts -> Ids(bids) \cup {NULL}],
             writes \in [ExpiredBiddingProducts -> 0..AuctionWrites] :
          ExpireBidsJobFailing(order, highest, writes)
          => \A p \in ExpiredBiddingProducts \ FailedAuctions(highest, writes) :
               IF highest[p] = NULL
               THEN products'[p].status = "expired"
               ELSE /\ products'[p].status = "in_transaction"
                    /\ bids'[highest[p]].status = "won"
                    /\ \A b \in Ids(bids) :
                         bids[b].productId = p => bids'[b].status # "active"
                    /\ \E t \in Ids(txns') \ Ids(txns) :
                         /\ txns'[t].bidId = highest[p]
                         /\ \E c \in Ids(conversations') :
                              conversations'[c].transactionId = t
       /\ \A order \in Orderings(ExpiredTransactions),
             writes \in [ExpiredTransactions -> 0..TransactionWrites] :
          ExpireTransactionsJobFailing(order, writes)
          => \A t \in ExpiredTransactions :
               writes[t] = TransactionWrites
               => /\ txns'[t].status = "expired"
                  /\ OriginStatus(txns[t])' = "expired"
                  /\ products'[txns[t].productId].status = "active"
       /\ \A order \in Orderings(ExpiredSessions), failed \in SUBSET ExpiredSessions :
          ExpireLocationSharingJobFailing(order, failed)
          => \A i \in ExpiredSessions \ failed :
               sessions'[i] = ExpireSession(sessions[i])
      ]_vars

\* a sweep logged the failure of one row and still closed the other auction
C23_Witness ==
    /\ res = [op |-> "expireBidsJob", code |-> 0]
    /\ logged = {"error"}
    /\ products[1].status = "in_transaction"
    /\ products[2].status = "active"
    /\ Len(txns) = 1

----------------------------------------------------------------------------
\* Properties of the expiry deadline

\* C24: every active transaction whose expiresAt (now + 24 h at creation) has
\* passed is eventually moved out of status active when the expiry sweep
\* keeps running, a transaction with no meetup proposed included.  Stated
\* for that last case alone: past the deadline, the transaction leaves
\* status active or gets a meetup.
C24_DeadlineEventuallyResolved ==
    \A t \in 1..MaxTxns :
      (t \in Ids(txns) /\ txns[t].status = "active" /\ txns[t].expiresAt < now)
      ~> (t \in Ids(txns) /\ (txns[t].status # "active"
                              \/ txns[t].scheduledMeetupAt # NULL))

----------------------------------------------------------------------------
\* Properties of bidding without an increment

\* C25: when the product's minimumBid is unset or 0 and a high bid exists,
\* placeBid by a non-seller before biddingEndsAt accepts every amount
\* strictly greater than the high bid.
C25_NoIncrementAcceptsHigher ==
    [][\A u \in Users, p \in DOMAIN products, a \in BidAmounts :
        ( /\ PlaceBid(u, p, a)
          /\ products[p].saleType = "bidding"
          /\ u # products[p].sellerId
          /\ products[p].biddingEndsAt # NULL /\ now < products[p].biddingEndsAt
          /\ products[p].minimumBid \in {NULL, 0}
          /\ BidsOf(p) # {}
          /\ a > HighBidAmount(p) )
        => /\ res'.code = 201
           /\ Len(bids') = Len(bids) + 1
           /\ bids'[Len(bids')] = NewBid(p, u, a)
      ]_vars

----------------------------------------------------------------------------
\* Properties of the meetup status

\* C26: meetupStatus changes only along not_scheduled -> scheduled,
\* scheduled -> confirmed, confirmed -> completed and non-terminal ->
\* cancelled; no step of proposeMeetup, acceptMeetup, markAsSold or
\* cancelTransaction moves it along another edge.
C26_MeetupStatusEdges ==
    [][\A t \in Ids(txns) :
        txns'[t].meetupStatus # txns[t].meetupStatus
        => <<txns[t].meetupStatus, txns'[t].meetupStatus>> \in
             {<<"not_scheduled", "scheduled">>, <<"scheduled", "confirmed">>,
              <<"confirmed", "completed">>, <<"not_scheduled", "cancelled">>,
              <<"scheduled", "cancelled">>, <<"confirmed", "cancelled">>}
      ]_vars

----------------------------------------------------------------------------
\* Properties of the order of writes

\* markAsSold when the store throws after `writes` of its awaited updates: the
\* transaction, the product, the origin record, written in that order outside
\* any db.transaction.  What was written stays, the outer catch logs the error
\* and throws it again
MarkAsSoldFailing(userId, transactionId, writes) ==
    LET transaction == txns[transactionId] IN
    /\ inflight = <<>>
    /\ IF MarkAsSoldError(transaction, userId) # NULL
       THEN /\ Reply("markAsSold", MarkAsSoldError(transaction, userId))
            /\ UNCHANGED <<txns, products, logged>>
       ELSE /\ txns' = [txns EXCEPT ![transactionId].status = "completed",
                                    ![transactionId].sellerConfirmedCompletion = TRUE]
            /\ products' = IF writes < 2 THEN products
                           ELSE [products EXCEPT
                                   ![transaction.productId].status = "sold",
                                   ![transaction.productId].soldTo = transaction.buyerId]
            /\ Reply("markAsSold", 500)
            /\ logged' = {"error"}
    /\ UNCHANGED <<now, offers, buys, bids, conversations, inflight, reviews, sessions, locationUpdates>>

\* cancelTransaction likewise: the transaction, the origin record, the product
CancelTransactionFailing(userId, transactionId, writes) ==
    LET transaction == txns[transactionId]
        newStatus == IF transaction.buyerId = userId
                     THEN "cancelled_by_buyer" ELSE "cancelled_by_seller"
    IN
    /\ inflight = <<>>
    /\ IF CancelTransactionError(transaction, userId) # NULL
       THEN /\ Reply("cancelTransaction", CancelTransactionError(transaction, userId))
            /\ UNCHANGED <<txns, offers, buys, bids, logged>>
       ELSE /\ txns' = [txns EXCEPT ![transactionId].status = newStatus,
                                    ![transactionId].cancelledBy = userId]
            /\ offers' = IF writes < 2 THEN offers
                         ELSE SetStatus(offers, transaction.offerId, "cancelled")
            /\ buys' = IF writes < 2 THEN buys
                       ELSE SetStatus(buys, transaction.buyId, newStatus)
            /\ bids' = IF writes < 2 THEN bids
                       ELSE SetStatus(bids, transaction.bidId, "cancelled")
            /\ Reply("cancelTransaction", 500)
            /\ logged' = {"error"}
    /\ UNCHANGED <<now, products, conversations, inflight, reviews, sessions, locationUpdates>>

\* the reads of a user's transactions: selects only
GetMyPurchases(userId) ==
    /\ Reply("getMyPurchases", 200)
    /\ UNCHANGED <<now, db, inflight, others>>

GetMySales(userId) ==
    /\ Reply("getMySales", 200)
    /\ UNCHANGED <<now, db, inflight, others>>

\* one transaction with a meetup to agree on, the store failing in the middle
\* of markAsSold and cancelTransaction
NextFailure ==
    \/ \E userId \in Users, transactionId \in Ids(txns), delay \in MeetupDelays :
         ProposeMeetup(userId, transactionId, now + delay) /\ UNCHANGED others
    \/ \E userId \in Users, transactionId \in Ids(txns) : AcceptMeetup(userId, transactionId) /\ UNCHANGED others
    \/ \E userId \in Users, transactionId \in Ids(txns), writes \in 1..2 :
         MarkAsSoldFailing(userId, transactionId, writes)
    \/ \E userId \in Users, transactionId \in Ids(txns), writes \in 1..2 :
         CancelTransactionFailing(userId, transactionId, writes)
    \/ \E userId \in Users : GetMyPurchases(userId)
    \/ \E userId \in Users : GetMySales(userId)
    \/ Tick /\ UNCHANGED others

SpecFailure == InitMeetup /\ [][NextFailure]_vars

\* the product and the origin record say what the closed transaction says
InAgreement(transaction) ==
    /\ transaction.status = "completed"
       => /\ products[transaction.productId].status = "sold"
          /\ OriginStatus(transaction) = "completed"
    /\ transaction.status \in {"cancelled_by_buyer", "cancelled_by_seller"}
       => /\ products[transaction.productId].status = "active"
          /\ OriginStatus(transaction) \in {"cancelled", transaction.status}

\* C28: when a propagation write fails after the write of the transaction
\* status in markAsSold or cancelTransaction, the transaction write is kept,
\* the caller is not told of the failure, and a later read leaves the product
\* and the origin record in agreement with the transaction.
C28_PropagationFailureHidden ==
    [][/\ \A u \in Users, t \in Ids(txns), w \in 1..2 :
           /\ \/ MarkAsSoldFailing(u, t, w)
              \/ CancelTransactionFailing(u, t, w)
           /\ txns'[t].status # txns[t].status
           => res'.code = 200
       /\ \A u \in Users :
           GetMyPurchases(u) \/ GetMySales(u)
           => \A t \in Ids(txns) : InAgreement(txns[t])'
      ]_vars

----------------------------------------------------------------------------
\* markAsSold, cancelTransaction and the expiry sweep, one await at a time

TransactionRequest(op, pc, userId, transactionId) ==
    [op |-> op, pc |-> pc, userId |-> userId, transactionId |-> transactionId]

\* markAsSold selects the transaction and checks it
BeginMarkAsSold(r, userId, transactionId) ==
    /\ r \in DOMAIN inflight
    /\ inflight[r].pc = "idle"
    /\ IF MarkAsSoldError(txns[transactionId], userId) # NULL
       THEN /\ Reply("markAsSold", MarkAsSoldError(txns[transactionId], userId))
            /\ UNCHANGED inflight
       ELSE /\ inflight' = [inflight EXCEPT ![r] =
                   TransactionRequest("markAsSold", "updateTransaction", userId,
                                      transactionId)]
            /\ UNCHANGED res
    /\ UNCHANGED <<now, db, others>>

\* cancelTransaction selects the transaction and checks it
BeginCancelTransaction(r, userId, transactionId) ==
    /\ r \in DOMAIN inflight
    /\ inflight[r].pc = "idle"
    /\ IF CancelTransactionError(txns[transactionId], userId) # NULL
       THEN /\ Reply("cancelTransaction",
                     CancelTransactionError(txns[transactionId], userId))
            /\ UNCHANGED inflight
       ELSE /\ inflight' = [inflight EXCEPT ![r] =
                   TransactionRequest("cancelTransaction", "updateTransaction", userId,
                                      transactionId)]
            /\ UNCHANGED res
    /\ UNCHANGED <<now, db, others>>

\* the sweep selects the expired transactions; with the one transaction of
\* the listing its loop has one iteration
BeginExpireTransactions(r) ==
    /\ r \in DOMAIN inflight
    /\ inflight[r].pc = "idle"
    /\ IF ExpiredTransactions = {}
       THEN Reply("expireTransactionsJob", 0) /\ UNCHANGED inflight
       ELSE /\ \E transactionId \in ExpiredTransactions :
                 inflight' = [inflight EXCEPT ![r] =
                    TransactionRequest("expireTransactionsJob", "updateTransaction",
                                       NULL, transactionId)]
            /\ UNCHANGED res
    /\ UNCHANGED <<now, db, others>>

\* the status each of the three writes to the transaction
StatusWritten(req) ==
    IF req.op = "markAsSold" THEN "completed"
    ELSE IF req.op = "expireTransactionsJob" THEN "expired"
    ELSE IF txns[req.transactionId].buyerId = req.userId THEN "cancelled_by_buyer"
    ELSE "cancelled_by_seller"

\* the update of the transaction: where id = transactionId, whatever the
\* status of the row is by now
UpdateTransaction(r) ==
    /\ r \in DOMAIN inflight
    /\ inflight[r].pc = "updateTransaction"
    /\ LET req == inflight[r] IN
       txns' = [txns EXCEPT
                  ![req.transactionId].status = StatusWritten(req),
                  ![req.transactionId].sellerConfirmedCompletion =
                      IF req.op = "markAsSold" THEN TRUE ELSE @,
                  ![req.transactionId].cancelledBy =
                      IF req.op = "cancelTransaction" THEN req.userId ELSE @]
    /\ inflight' = [inflight EXCEPT ![r].pc = "updateRelated"]
    /\ UNCHANGED <<now, products, bids, offers, buys, conversations, res, others>>

\* the updates of the product and of the origin record, from the row the
\* handler selected at its start
UpdateRelated(r) ==
    /\ r \in DOMAIN inflight
    /\ inflight[r].pc = "updateRelated"
    /\ LET req == inflight[r]
           transaction == txns[req.transactionId]
           status == IF req.op = "markAsSold" THEN "completed"
                     ELSE IF req.op = "expireTransactionsJob" THEN "expired"
                     ELSE "cancelled"
           buyStatus == IF req.op = "cancelTransaction"
                        THEN (IF transaction.buyerId = req.userId
                              THEN "cancelled_by_buyer" ELSE "cancelled_by_seller")
                        ELSE status
       IN  /\ offers' = SetStatus(offers, transaction.offerId, status)
           /\ buys' = SetStatus(buys, transaction.buyId, buyStatus)
           /\ bids' = SetStatus(bids, transaction.bidId, status)
           /\ products' = IF req.op = "markAsSold"
                          THEN [products EXCEPT
                                  ![transaction.productId].status = "sold",
                                  ![transaction.productId].soldTo = transaction.buyerId]
                          ELSE [products EXCEPT ![transaction.productId].status = "active"]
           /\ Reply(req.op, IF req.op = "expireTransactionsJob" THEN 0 ELSE 200)
    /\ inflight' = [inflight EXCEPT ![r] = Idle]
    /\ UNCHANGED <<now, txns, conversations, others>>

\* a transaction with a confirmed meetup more than 24 hours past
InitRace ==
    /\ now = TWENTY_FOUR_HOURS + 3
    /\ \E st \in {AfterAcceptMeetup} :
         /\ products = st.products /\ bids = st.bids /\ offers = st.offers
         /\ buys = st.buys /\ conversations = st.conversations
         /\ txns = <<[st.txns[1] EXCEPT !.expiresAt = TWENTY_FOUR_HOURS]>>
    /\ inflight = [r \in 1..MaxRequests |-> Idle]
    /\ res = NoResponse
    /\ reviews = <<>> /\ sessions = <<>> /\ logged = {}
    /\ locationUpdates = <<>>

NextRace ==
    \/ \E r \in DOMAIN inflight, userId \in Users, transactionId \in Ids(txns) :
         BeginMarkAsSold(r, userId, transactionId)
    \/ \E r \in DOMAIN inflight, userId \in Users, transactionId \in Ids(txns) :
         BeginCancelTransaction(r, userId, transactionId)
    \/ \E r \in DOMAIN inflight : BeginExpireTransactions(r)
    \/ \E r \in DOMAIN inflight : UpdateTransaction(r)
    \/ \E r \in DOMAIN inflight : UpdateRelated(r)

SpecRace == InitRace /\ [][NextRace]_vars

----------------------------------------------------------------------------
\* expireBidsJob, one await at a time: cron starts a run every minute whether
\* or not the previous one has returned

\* a run selects the expired bidding products
SelectExpiredBiddingProducts ==
    /\ Len(inflight) < MaxRequests
    /\ \A r \in DOMAIN inflight : inflight[r].pc = "closeAuction"
    /\ IF ExpiredBiddingProducts = {}
       THEN Reply("expireBidsJob", 0) /\ UNCHANGED inflight
       ELSE /\ \E order \in Orderings(ExpiredBiddingProducts) :
                 inflight' = Append(inflight, [pc |-> "closeAuction", order |-> order])
            /\ UNCHANGED res
    /\ UNCHANGED <<now, db, others>>

\* a run processes the next product of the rows it selected, and returns
\* after the last
CloseNextAuction(r) ==
    /\ r \in DOMAIN inflight
    /\ inflight[r].pc = "closeAuction"
    /\ LET productId == Head(inflight[r].order) IN
       \E highestBid \in HighestBid(productId) :
         LET st == CloseAuction(productId, highestBid,
                      [products |-> products, bids |-> bids, txns |-> txns,
                       conversations |-> conversations])
         IN  /\ Len(st.txns) <= MaxTxns
             /\ products' = st.products
             /\ bids' = st.bids
             /\ txns' = st.txns
             /\ conversations' = st.conversations
    /\ IF Tail(inflight[r].order) = <<>>
       THEN /\ inflight' = SubSeq(inflight, 1, r - 1) \o SubSeq(inflight, r + 1, Len(inflight))
            /\ Reply("expireBidsJob", 0)
       ELSE inflight' = [inflight EXCEPT ![r].order = Tail(@)] /\ UNCHANGED res
    /\ UNCHANGED <<now, offers, buys, others>>

\* one auction, bids while no run is in progress, and overlapping runs
NextOverlap ==
    \/ \E userId \in {"b1", "b2"}, productId \in DOMAIN products, bidAmount \in {9, 10} :
         PlaceBid(userId, productId, bidAmount) /\ UNCHANGED others
    \/ SelectExpiredBiddingProducts
    \/ \E r \in DOMAIN inflight : CloseNextAuction(r)
    \/ Tick /\ UNCHANGED others

SpecOverlap == InitResale /\ [][NextOverlap]_vars

----------------------------------------------------------------------------
\* acceptOffer and confirmBuy when the store throws after `writes` of their
\* awaited writes: the update of the origin record, then the insert of the
\* transaction.  Neither handler has a try or a db.transaction: what was
\* written stays and the rejection goes to the caller

AcceptOfferFailing(userId, id, writes) ==
    LET offer == offers[id] IN
    /\ inflight = <<>>
    /\ IF RespondOfferError(offer, userId) # NULL
       THEN /\ Reply("acceptOffer", RespondOfferError(offer, userId))
            /\ UNCHANGED offers
       ELSE /\ offers' = IF writes < 1 THEN offers
                         ELSE [offers EXCEPT ![id].status = "accepted"]
            /\ Reply("acceptOffer", 500)
    /\ UNCHANGED <<now, products, bids, buys, txns, conversations, inflight, others>>

ConfirmBuyFailing(userId, id, writes) ==
    LET buy == buys[id]
        product == products[buy.productId]
    IN
    /\ inflight = <<>>
    /\ IF ConfirmBuyError(buy, product, userId) # NULL
       THEN /\ Reply("confirmBuy", ConfirmBuyError(buy, product, userId))
            /\ UNCHANGED buys
       ELSE /\ buys' = IF writes < 1 THEN buys
                       ELSE [buys EXCEPT ![id].status = "confirmed_pending_meetup"]
            /\ Reply("confirmBuy", 500)
    /\ UNCHANGED <<now, products, bids, offers, txns, conversations, inflight, others>>

\* a listing, its offers and buys, and a store that may fail in the middle of
\* an acceptance
NextAcceptance ==
    \/ \E userId \in {"b1", "b2"}, productId \in DOMAIN products :
         CreateNegotiableConversation(userId, Seller, productId, 5) /\ UNCHANGED others
    \/ \E userId \in {"b1", "b2"}, productId \in DOMAIN products :
         CreateBuyConversation(userId, Seller, productId) /\ UNCHANGED others
    \/ \E userId \in Users, id \in Ids(offers) : AcceptOffer(userId, id) /\ UNCHANGED others
    \/ \E userId \in Users, id \in Ids(buys) : ConfirmBuy(userId, id) /\ UNCHANGED others
    \/ \E userId \in Users, id \in Ids(offers), writes \in 0..1 :
         AcceptOfferFailing(userId, id, writes)
    \/ \E userId \in Users, id \in Ids(buys), writes \in 0..1 :
         ConfirmBuyFailing(userId, id, writes)

SpecAcceptance == InitOffer /\ [][NextAcceptance]_vars

----------------------------------------------------------------------------
\* placeBid when the store throws after `writes` of its awaited writes: the
\* update of the previous highest bid to outbid, then, selects later, the
\* insert of the new bid.  No db.transaction; the catch logs and throws again

PlaceBidFailing(userId, productId, bidAmount, writes) ==
    LET product == products[productId] IN
    /\ inflight = <<>>
    /\ UNCHANGED <<now, products, offers, buys, txns, conversations, inflight,
                   reviews, sessions, locationUpdates>>
    /\ IF ProductRejectsBid(product, userId, bidAmount)
       THEN Reply("placeBid", 400) /\ UNCHANGED <<bids, logged>>
       ELSE \E highestBid \in HighestBid(productId) :
              IF highestBid # NULL
              THEN IF HighestBidRejects(product, bids[highestBid], bidAmount)
                   THEN Reply("placeBid", 400) /\ UNCHANGED <<bids, logged>>
                   ELSE /\ bids' = IF writes < 1 THEN bids
                                   ELSE MarkOutbid(bids, highestBid)
                        /\ Reply("placeBid", 500)
                        /\ logged' = {"error"}
              ELSE IF FirstBidRejects(product, bidAmount)
                   THEN Reply("placeBid", 400) /\ UNCHANGED <<bids, logged>>
                   ELSE /\ UNCHANGED bids
                        /\ Reply("placeBid", 500)
                        /\ logged' = {"error"}

\* one auction and a store that may fail in the middle of placeBid
NextBidFailure ==
    \/ \E userId \in {"b1", "b2"}, productId \in DOMAIN products, bidAmount \in {9, 10, 11} :
         PlaceBid(userId, productId, bidAmount) /\ UNCHANGED others
    \/ \E userId \in {"b1", "b2"}, productId \in DOMAIN products, bidAmount \in {9, 10, 11},
          writes \in 0..1 :
         PlaceBidFailing(userId, productId, bidAmount, writes)
    \/ Tick /\ UNCHANGED others

SpecBidFailure == InitResale /\ [][NextBidFailure]_vars

----------------------------------------------------------------------------
\* handleLocationUpdate: the socket handler of update_location

\* without an active session of the conversation the handler logs and
\* returns; otherwise it inserts the update under the userId of the socket.
\* The coordinates only feed the distances it emits
HandleLocationUpdate(userId, conversationId) ==
    /\ inflight = <<>>
    /\ IF ActiveSessions(conversationId) = {}
       THEN /\ logged' = {"error"}
            /\ UNCHANGED locationUpdates
       ELSE /\ Len(locationUpdates) < MaxUpdates
            /\ \E session \in ActiveSessions(conversationId) :
                 locationUpdates' = Append(locationUpdates,
                                           [sessionId |-> session, userId |-> userId])
            /\ UNCHANGED logged
    /\ Reply("handleLocationUpdate", 0)
    /\ UNCHANGED <<now, db, inflight, reviews, sessions>>

\* one conversation, its participants and a third user, sharing and sending
\* locations
NextTracking ==
    \/ \E userId \in Users, conversationId \in Ids(conversations) :
         StartLocationSharing(userId, conversationId)
    \/ \E userId \in Users, conversationId \in Ids(conversations) :
         StopLocationSharing(userId, conversationId)
    \/ \E userId \in Users, conversationId \in Ids(conversations) :
         HandleLocationUpdate(userId, conversationId)

SpecTracking == InitSharing /\ [][NextTracking]_vars

----------------------------------------------------------------------------
\* createReview, one await at a time

NewReview(transactionId, reviewerId, revieweeId, rating, reviewerRole) ==
    [transactionId |-> transactionId, reviewerId |-> reviewerId,
     revieweeId |-> revieweeId, rating |-> rating, reviewerRole |-> reviewerRole,
     revieweeRole |-> IF reviewerRole = "buyer" THEN "seller" ELSE "buyer",
     isVerifiedTransaction |-> TRUE]

ReviewRequest(pc, userId, transactionId, rating) ==
    [pc |-> pc, userId |-> userId, transactionId |-> transactionId, rating |-> rating]

\* the checks of the body and of the transaction row: the status of the
\* response that refuses the request, NULL when it goes on
CreateReviewError(transaction, userId, rating) ==
    IF rating = NULL THEN 400
    ELSE IF rating < 1 \/ rating > 5 THEN 400
    ELSE IF transaction.status # "completed" THEN 400
    ELSE IF transaction.buyerId # userId /\ transaction.sellerId # userId THEN 403
    ELSE NULL

\* the reviews of the transaction by the user, as the select ... limit(1) sees them
ExistingReview(transactionId, userId) ==
    {i \in Ids(reviews) : /\ reviews[i].transactionId = transactionId
                          /\ reviews[i].reviewerId = userId}

\* the body is validated and the transaction selected
BeginCreateReview(r, userId, transactionId, rating) ==
    /\ r \in DOMAIN inflight
    /\ inflight[r].pc = "idle"
    /\ IF CreateReviewError(txns[transactionId], userId, rating) # NULL
       THEN /\ Reply("createReview", CreateReviewError(txns[transactionId], userId, rating))
            /\ UNCHANGED inflight
       ELSE /\ inflight' = [inflight EXCEPT ![r] =
                   ReviewRequest("selectExistingReview", userId, transactionId, rating)]
            /\ UNCHANGED res
    /\ UNCHANGED <<now, db, others>>

\* the user's review of the transaction is looked up
SelectExistingReview(r) ==
    /\ r \in DOMAIN inflight
    /\ inflight[r].pc = "selectExistingReview"
    /\ IF ExistingReview(inflight[r].transactionId, inflight[r].userId) # {}
       THEN Reply("createReview", 400) /\ inflight' = [inflight EXCEPT ![r] = Idle]
       ELSE inflight' = [inflight EXCEPT ![r].pc = "insertReview"] /\ UNCHANGED res
    /\ UNCHANGED <<now, db, others>>

\* the review is inserted: the index on (transaction_id, reviewer_id) is not
\* a unique one, the insert never fails on a second row
InsertReview(r) ==
    /\ r \in DOMAIN inflight
    /\ inflight[r].pc = "insertReview"
    /\ Len(reviews) < MaxReviews
    /\ LET req == inflight[r]
           transaction == txns[req.transactionId]
           isBuyer == transaction.buyerId = req.userId
       IN reviews' = Append(reviews,
             NewReview(req.transactionId, req.userId,
                       IF isBuyer THEN transaction.sellerId ELSE transaction.buyerId,
                       req.rating, IF isBuyer THEN "buyer" ELSE "seller"))
    /\ inflight' = [inflight EXCEPT ![r] = Idle]
    /\ Reply("createReview", 201)
    /\ UNCHANGED <<now, db, sessions, locationUpdates, logged>>

\* the transaction of an accepted offer after markAsSold
AfterMarkAsSold ==
    [AfterAcceptMeetup EXCEPT
       !.txns = <<[AfterAcceptMeetup.txns[1] EXCEPT
                     !.status = "completed", !.sellerConfirmedCompletion = TRUE]>>,
       !.products = [AfterAcceptMeetup.products EXCEPT
                       ![AfterAcceptMeetup.txns[1].productId].status = "sold",
                       ![AfterAcceptMeetup.txns[1].productId].soldTo =
                           AfterAcceptMeetup.txns[1].buyerId],
       !.offers = SetStatus(AfterAcceptMeetup.offers,
                            AfterAcceptMeetup.txns[1].offerId, "completed")]

Ratings == {NULL, 3, 6}

\* one transaction, still active or completed, and concurrent createReview
\* requests
InitReview ==
    /\ now = 3
    /\ \E st \in {AfterAcceptMeetup, AfterMarkAsSold} :
         /\ products = st.products /\ bids = st.bids /\ offers = st.offers
         /\ buys = st.buys /\ txns = st.txns /\ conversations = st.conversations
    /\ inflight = [r \in 1..MaxRequests |-> Idle]
    /\ res = NoResponse
    /\ reviews = <<>> /\ sessions = <<>> /\ logged = {}
    /\ locationUpdates = <<>>

NextReview ==
    \/ \E r \in DOMAIN inflight, userId \in Users, transactionId \in Ids(txns),
          rating \in Ratings :
         BeginCreateReview(r, userId, transactionId, rating)
    \/ \E r \in DOMAIN inflight : SelectExistingReview(r)
    \/ \E r \in DOMAIN inflight : InsertReview(r)

SpecReview == InitReview /\ [][NextReview]_vars

\* C30: a review exists only for a completed transaction and only from its
\* buyer or seller, and each participant has at most one review of a
\* transaction, also when two createReview requests of the same participant
\* interleave.
C30_OneReviewPerParticipant ==
    /\ \A i \in Ids(reviews) :
         /\ txns[reviews[i].transactionId].status = "completed"
         /\ reviews[i].reviewerId \in {txns[reviews[i].transactionId].buyerId,
                                      txns[reviews[i].transactionId].sellerId}
    /\ \A i, j \in Ids(reviews) :
         /\ reviews[i].transactionId = reviews[j].transactionId
         /\ reviews[i].reviewerId = reviews[j].reviewerId
         => i = j

----------------------------------------------------------------------------
\* C27: the write of the transaction row precedes every dependent write: in
\* no reachable state, intermediate ones included, is an offer accepted, a
\* buy confirmed_pending_meetup or a bid won while its transaction does not
\* exist yet.
C27_TransactionWrittenFirst ==
    /\ \A o \in Ids(offers) :
         offers[o].status = "accepted" => \E t \in Ids(txns) : txns[t].offerId = o
    /\ \A b \in Ids(buys) :
         buys[b].status = "confirmed_pending_meetup"
         => \E t \in Ids(txns) : txns[t].buyId = b
    /\ \A b \in Ids(bids) :
         bids[b].status = "won" => \E t \in Ids(txns) : txns[t].bidId = b

----------------------------------------------------------------------------
\* Properties of closed transactions

TerminalStatuses == {"completed", "cancelled_by_buyer", "cancelled_by_seller", "expired"}

\* C31: terminal transaction statuses are absorbing: once a transaction is
\* completed, cancelled_by_buyer, cancelled_by_seller or expired, no later
\* proposeMeetup, acceptMeetup, markAsSold, cancelTransaction or sweep changes
\* its status, meetupStatus or meetup fields.
C31_TerminalAbsorbing ==
    [][\A t \in Ids(txns) :
        txns[t].status \in TerminalStatuses
        => /\ txns'[t].status = txns[t].status
           /\ txns'[t].meetupStatus = txns[t].meetupStatus
           /\ txns'[t].scheduledMeetupAt = txns[t].scheduledMeetupAt
           /\ txns'[t].meetupProposedBy = txns[t].meetupProposedBy
      ]_vars

\* C32: a bid is marked won at most once and is the origin of at most one
\* transaction: once the transaction of a bid is cancelled or expired, which
\* sets the bid to cancelled or expired, no later auction-close sweep changes
\* the status of that bid or creates another transaction from it.
C32_BidWonOnce ==
    [][\A b \in Ids(bids) :
        bids[b].status \in {"cancelled", "expired"}
        => /\ bids'[b].status = bids[b].status
           /\ {t \in Ids(txns') : txns'[t].bidId = b} = {t \in Ids(txns) : txns[t].bidId = b}
      ]_vars

\* C33: for every transaction whose origin is an offer, agreedPrice equals
\* the amount of the offer in every reachable state: no operation changes the
\* amount of an offer that is accepted, completed or cancelled.
C33_AgreedPriceIsOfferAmount ==
    \A t \in Ids(txns) :
        txns[t].offerId # NULL
        => txns[t].agreedPrice = offers[txns[t].offerId].offerAmount

\* C34: under any interleaving of markAsSold, cancelTransaction and the
\* transaction-expiry sweep on one transaction, the transaction leaves status
\* active exactly once, and once no request is in flight the product is sold
\* if and only if the transaction is completed, and active if the transaction
\* is cancelled or expired.
C34_OneWinner ==
    [][\A t \in Ids(txns) :
        /\ txns[t].status # "active" => txns'[t].status = txns[t].status
        /\ (\A r \in DOMAIN inflight : inflight'[r] = Idle)
           => /\ products'[txns[t].productId].status = "sold"
                 <=> txns'[t].status = "completed"
              /\ txns'[t].status \in TerminalStatuses \ {"completed"}
                 => products'[txns[t].productId].status = "active"
      ]_vars

\* C35: when two executions of the auction-close sweep overlap, both having
\* selected the same expired active bidding product before either updates
\* it, at most one transaction is created for that product.
C35_OverlappingSweeps ==
    \A p \in DOMAIN products :
        Cardinality({t \in Ids(txns) : txns[t].productId = p /\ txns[t].bidId # NULL}) <= 1

\* C36: acceptance is atomic with the creation of the transaction: in every
\* reachable state, also after a store write has failed midway through
\* acceptOffer or confirmBuy, an offer is accepted, or a buy
\* confirmed_pending_meetup, only if a transaction with that origin exists.
C36_AcceptanceAtomic ==
    /\ \A id \in Ids(offers) :
         offers[id].status = "accepted"
         => {t \in Ids(txns) : txns[t].offerId = id} # {}
    /\ \A id \in Ids(buys) :
         buys[id].status = "confirmed_pending_meetup"
         => {t \in Ids(txns) : txns[t].buyId = id} # {}

\* C37: placeBid is all-or-nothing: when it fails at a step after its
\* validation no bid has changed status, so that a product with bids never
\* has zero active bids before the close of its auction.
C37_PlaceBidAllOrNothing ==
    [][/\ res'.op = "placeBid" /\ res'.code = 500 => bids' = bids
       /\ \A p \in DOMAIN products :
            products'[p].status = "active" /\ BidsOf(p)' # {}
            => \E i \in BidsOf(p)' : bids'[i].status = "active"
      ]_vars

\* C38: the bid that placeBid validates against as the current high bid, and
\* the bid that the auction-close sweep marks won, is the bid with the
\* numerically greatest amount among the bids of the product, for amounts of
\* any number of digits.
C38_HighBidIsNumericMax ==
    \A p \in DOMAIN products :
        /\ \A i \in HighestBid(p) \ {NULL} :
             \A j \in BidsOf(p) : bids[i].bidAmount >= bids[j].bidAmount
        /\ \A i \in BidsOf(p) :
             bids[i].status = "won"
             => \A j \in BidsOf(p) : bids[i].bidAmount >= bids[j].bidAmount

----------------------------------------------------------------------------
\* Properties of location sharing by users outside the conversation

\* C39: a location-sharing operation of a user who is not a participant of
\* the conversation has no effect: stopLocationSharing changes no
\* participant's sharing flag, and a location update is stored only when its
\* sender is a participant of the conversation whose own sharing flag is
\* true in an active session.
C39_OutsiderHasNoEffect ==
    [][\A u \in Users, c \in Ids(conversations) :
        LET isParticipant1 == conversations[c].participant1Id = u
            isParticipant2 == conversations[c].participant2Id = u
        IN  /\ StopLocationSharing(u, c) /\ ~isParticipant1 /\ ~isParticipant2
               => sessions' = sessions
            /\ HandleLocationUpdate(u, c) /\ locationUpdates' # locationUpdates
               => \E s \in ActiveSessions(c) :
                    \/ isParticipant1 /\ sessions[s].participant1Sharing
                    \/ isParticipant2 /\ sessions[s].participant2Sharing
      ]_vars

====
